---- MODULE Spec2Model ----
(***************************************************************************)
(* SafeRide-Kids: authentication, role gating and owner-scoped child       *)
(* records (src/app).  The document store is modelled as two collections   *)
(* of documents (records); a document that lacks a field lacks it in its   *)
(* DOMAIN, as in MongoDB.  An ObjectId and the string that spells it are    *)
(* different values: Oid(s) and Str(s).                                     *)
(***************************************************************************)
EXTENDS Integers, Sequences, FiniteSets, TLC

VARIABLES
  users,     \* the users collection
  children,  \* the children collection
  now,       \* the clock (UTC)
  tz,        \* the host's UTC offset
  hdr,       \* the Authorization header the client holds
  iss,       \* how the token in hdr was issued (history)
  last,      \* the latest call and what it gave
  calls,     \* the service calls in flight, by request
  client,    \* database.client, the MongoDB client of the process
  database,  \* database.database, the handle get_database gives out
  today      \* date.today() on the host

vars == <<users, children, now, tz, hdr, iss, last, calls, client, database, today>>

(***************************************************************************)
(* Bounds of the model.                                                    *)
(***************************************************************************)
MaxChildren == 2
MaxTime == 4
MaxTtl == 2
MaxRequests == 2
\* settings.jwt_expire_minutes (1440 unless configured), scaled to the clock
JwtExpireMinutes == 2
\* the years the host's date ranges over, from 2024 on
MaxTodayYears == 2
\* the oldest date of birth, in years before 2024
MaxAgeYears == 20

(***************************************************************************)
(* Calendar dates (datetime.date).                                         *)
(***************************************************************************)
Date(y, m, d) == [year |-> y, month |-> m, day |-> d]

\* the date the host shows where the specification does not move it
Today0 == Date(2024, 6, 15)

\* datetime.combine(d, datetime.min.time()), the form a date is stored in
datetime_combine(d) ==
  [year |-> d.year, month |-> d.month, day |-> d.day, hour |-> 0, minute |-> 0]

\* datetime.date()
datetime_date(dt) == Date(dt.year, dt.month, dt.day)

\* Python's comparison of the tuples (a.month, a.day) < (b.month, b.day)
MonthDayBefore(a, b) == a.month < b.month \/ (a.month = b.month /\ a.day < b.day)

\* calculate_age taking the difference of the years alone
calculate_age_by_year(date_of_birth) == today.year - date_of_birth.year

\* ChildDB.calculate_age / ChildOut.calculate_age: a bool counts as 0 or 1
calculate_age(date_of_birth) ==
  today.year - date_of_birth.year
    - (IF MonthDayBefore(today, date_of_birth) THEN 1 ELSE 0)

(***************************************************************************)
(* Outcomes of calls.                                                      *)
(***************************************************************************)
\* what a call gives: a value returned, or an HTTPException raised
Returned(v) == [raised |-> FALSE, status |-> 200, detail |-> <<>>, value |-> v]
Raised(status, detail) ==
  [raised |-> TRUE, status |-> status, detail |-> detail, value |-> <<>>]

\* an exception that is no HTTPException; left alone, the framework answers
\* it with status 500
Unhandled(error) == Raised(500, <<error>>)

(***************************************************************************)
(* Identifiers.                                                            *)
(***************************************************************************)
Oid(s) == [enc |-> "oid", val |-> s]
Str(s) == [enc |-> "str", val |-> s]

\* bson ObjectId.is_valid: "None" and "zz" stand for strings that are not
\* 24 hexadecimal digits; every other identifier string is well formed.
IsValidOid(s) == s \notin {"None", "zz"}

ChildIdPool == <<"c1", "c2", "c3", "c4">>
UserIdPool == <<"u1", "u2", "u3", "u4">>
ChildIds == {ChildIdPool[i] : i \in 1..MaxChildren}
LegacyChildId == "c0"
\* child ids a request may carry: stored ones, one never stored, one malformed
RequestChildIds == ChildIds \cup {LegacyChildId, "zz"}
\* owner ids a service call may carry: two active guardians, an inactive
\* guardian and a driver; Callers are the two guardians that read and write
OwnerIds == {"u1", "u2", "u3", "u4", "u9", "zz"}
Callers == {"u1", "u2"}

(***************************************************************************)
(* Python dict literal: a later item with the same key replaces the        *)
(* earlier one.                                                            *)
(***************************************************************************)
PyDict(items) ==
  [k \in {items[i][1] : i \in 1..Len(items)} |->
      items[CHOOSE i \in 1..Len(items) :
               /\ items[i][1] = k
               /\ \A j \in 1..Len(items) : items[j][1] = k => j <= i][2]]

(***************************************************************************)
(* MongoDB query matching, for the operators the services use.             *)
(***************************************************************************)
Cond(field, val) == [field |-> field, op |-> "eq", val |-> val]
Exists(field, b) == [field |-> field, op |-> "exists", val |-> b]

MatchCond(doc, c) ==
  IF c.op = "exists"
    THEN (c.field \in DOMAIN doc) = c.val
    ELSE c.field \in DOMAIN doc /\ doc[c.field] = c.val

MatchOr(doc, clauses) == \E i \in 1..Len(clauses) : MatchCond(doc, clauses[i])

Matches(doc, q) ==
  \A k \in DOMAIN q :
     CASE k = "$or"  -> MatchOr(doc, q[k])
       [] k = "$and" -> \A i \in 1..Len(q[k]) : MatchOr(doc, q[k][i])
       [] OTHER      -> k \in DOMAIN doc /\ doc[k] = q[k]

Find(coll, q) == {d \in coll : Matches(d, q)}

\* $set: the fields of upd replace or extend those of doc
SetFields(doc, upd) ==
  [k \in DOMAIN doc \cup DOMAIN upd |-> IF k \in DOMAIN upd THEN upd[k] ELSE doc[k]]

(***************************************************************************)
(* Credential store (app/auth/utils.py).  A bcrypt hash is modelled as the *)
(* triple <<scheme, salt, digest>>; the digest of p under a salt is        *)
(* represented by p itself, which only checkpw ever inspects.              *)
(***************************************************************************)
Salts == {"s1", "s2"}
Passwords == {"longenough1", "longenough2"}

get_password_hash(password, salt) == <<"$2b$", salt, password>>

WellFormedHash(h) == Len(h) = 3 /\ h[1] = "$2b$"

\* bcrypt.checkpw inside try/except: any error yields False
verify_password(plain_password, hashed_password) ==
  IF WellFormedHash(hashed_password)
    THEN hashed_password[3] = plain_password
    ELSE FALSE

(***************************************************************************)
(* E-mail addresses.  EmailStr validation lower-cases the domain and keeps *)
(* the local part as written.                                              *)
(***************************************************************************)
Email(l, d) == [local |-> l, domain |-> d]

Lower(s) ==
  CASE s = "G" -> "g"
    [] s = "X.COM" -> "x.com"
    [] OTHER -> s

EmailStr(e) == Email(e.local, Lower(e.domain))

RawEmails == {Email(l, d) : l \in {"g", "G"}, d \in {"x.com", "X.COM"}}

Roles == {"guardian", "driver", "admin"}

(***************************************************************************)
(* Models (app/models).                                                    *)
(***************************************************************************)
\* the value None stored as an _id
NullId == [enc |-> "null", val |-> "None"]

\* UserDB(**user_dict).dict(by_alias=True): id is not given, so the dict has
\* "_id": None; created_at and is_active take their defaults.
UserDB(email, role, hashed, t) ==
  [_id |-> NullId, email |-> email, role |-> role, hashed_password |-> hashed,
   created_at |-> t, is_active |-> TRUE]

\* PyObjectId accepts an ObjectId or a str that is a valid ObjectId; the
\* callers turn a truthy _id into str first and leave None as it is
UserOutValidates(user) == user._id.enc # "null" /\ IsValidOid(user._id.val)

\* UserOut(**user) keeping every field of the document, as UserDB would
UserOutAllFields(user) ==
  [k \in (DOMAIN user \ {"_id"}) \cup {"id"} |->
     IF k = "id" THEN user._id.val ELSE user[k]]

\* UserOut(**user): only the declared fields survive; _id is turned into str
UserOut(user) ==
  [id |-> user._id.val, email |-> user.email, role |-> user.role,
   created_at |-> user.created_at]

\* ChildIn: name and date_of_birth are required, notes is optional and may
\* be left unset
ChildNames == {"ann"}
BirthDate0 == Date(2016, 1, 15)
Body0 == [name |-> "ann", date_of_birth |-> BirthDate0]
BodyNotes(x) == [name |-> "ann", date_of_birth |-> BirthDate0, notes |-> x]
ChildInputs ==
  {[name |-> n, date_of_birth |-> BirthDate0] : n \in ChildNames}
    \cup {[name |-> n, date_of_birth |-> BirthDate0, notes |-> x] :
             n \in ChildNames, x \in {"None", "nut allergy"}}

\* ChildIn.validate_date_of_birth: the value, or the ValueError it raises
validate_date_of_birth(v) ==
  LET age == today.year - v.year - (IF MonthDayBefore(today, v) THEN 1 ELSE 0)
  IN IF age < 0 THEN Raised(422, <<"Date of birth cannot be in the future">>)
     ELSE IF age > 18 THEN Raised(422, <<"Child must be 18 years old or younger">>)
     ELSE Returned(<<v>>)

\* validate_coordinates with the bounds excluded
validate_coordinates_exclusive(v) ==
  IF Len(v) # 2 THEN Raised(422, <<"Coordinates must contain exactly 2 values">>)
  ELSE IF ~(-180 < v[1] /\ v[1] < 180) THEN Raised(422, <<"Longitude">>)
  ELSE IF ~(-90 < v[2] /\ v[2] < 90) THEN Raised(422, <<"Latitude">>)
  ELSE Returned(<<v>>)

\* ChildIn.validate_coordinates: lng, lat = v
validate_coordinates(v) ==
  IF Len(v) # 2
    THEN Raised(422, <<"Coordinates must contain exactly 2 values [longitude, latitude]">>)
  ELSE IF ~(-180 <= v[1] /\ v[1] <= 180)
    THEN Raised(422, <<"Longitude must be between -180 and 180 degrees">>)
  ELSE IF ~(-90 <= v[2] /\ v[2] <= 90)
    THEN Raised(422, <<"Latitude must be between -90 and 90 degrees">>)
  ELSE Returned(<<v>>)

\* ChildIn(**body): the validators run when the request body is parsed
ChildIn(body) == validate_date_of_birth(body.date_of_birth)

\* child_data.dict(): unset optional fields appear with their default None
ChildInDict(child_data) ==
  [name |-> child_data.name, date_of_birth |-> child_data.date_of_birth,
   notes |-> IF "notes" \in DOMAIN child_data THEN child_data.notes ELSE "None"]

\* an update that writes every field of ChildIn, the unset ones as None
ChildInDictWithUnset(child_data) == ChildInDict(child_data)

\* child_data.dict(exclude_unset=True): only the fields the request set
ChildInDictExcludeUnset(child_data) == child_data

\* the $set document of update_child: the fields the request set, the date
\* of birth in its stored form
update_data(child_data) ==
  [ChildInDictExcludeUnset(child_data) EXCEPT !.date_of_birth = datetime_combine(@)]

\* ChildOut(**child) of a document read from the store: the date of birth
\* is turned back into a date and the age is computed from it; of the rest
\* the declared fields only (no is_active, no updated_at), an ObjectId
\* guardian_id turned into its string
ChildOut(child) ==
  [id |-> child._id.val, guardian_id |-> child.guardian_id.val,
   name |-> child.name, date_of_birth |-> datetime_date(child.date_of_birth),
   age |-> calculate_age(datetime_date(child.date_of_birth)),
   notes |-> child.notes, created_at |-> child.created_at]

(***************************************************************************)
(* Child service (app/services/child_service.py).  Every operation yields  *)
(* [out, ret, coll]: the outcome, the records returned and the children    *)
(* collection it leaves.                                                   *)
(***************************************************************************)
ActiveOrLegacy == <<Cond("is_active", TRUE), Exists("is_active", FALSE)>>

\* GuardianQuery with the ownership group alone
GuardianQueryOfAnyState(guardian_id) ==
  PyDict(<< <<"$and", << <<Cond("guardian_id", Oid(guardian_id)),
                           Cond("guardian_id", Str(guardian_id))>> >> >> >>)

\* the filter of get_children_by_guardian: an explicit $and of two $or groups
GuardianQuery(guardian_id) ==
  PyDict(<< <<"$and", << <<Cond("guardian_id", Oid(guardian_id)),
                           Cond("guardian_id", Str(guardian_id))>>,
                         ActiveOrLegacy >> >> >>)

\* ChildQuery with the two "$or" items written in the other order, so that
\* the ownership group is the one that survives
ChildQueryOwnerGroupLast(child_id, guardian_id) ==
  PyDict(<< <<"_id", Oid(child_id)>>,
            <<"$or", ActiveOrLegacy>>,
            <<"$or", <<Cond("guardian_id",
                            IF IsValidOid(guardian_id) THEN Oid(guardian_id)
                                                       ELSE Str(guardian_id)),
                       Cond("guardian_id", Str(guardian_id))>> >> >>)

\* the filter of get_child_by_id, update_child and delete_child: a dict
\* literal that writes the key "$or" twice
ChildQuery(child_id, guardian_id) ==
  PyDict(<< <<"_id", Oid(child_id)>>,
            <<"$or", <<Cond("guardian_id",
                            IF IsValidOid(guardian_id) THEN Oid(guardian_id)
                                                       ELSE Str(guardian_id)),
                       Cond("guardian_id", Str(guardian_id))>> >>,
            <<"$or", ActiveOrLegacy>> >>)

Result(out, ret, coll) == [out |-> out, ret |-> ret, coll |-> coll]

\* FindGuardian without the "is_active": True condition
FindGuardianOfAnyState(guardian_id) ==
  LET q(id) == PyDict(<< <<"_id", id>>, <<"role", "guardian">> >>)
      byOid == IF IsValidOid(guardian_id) THEN Find(users, q(Oid(guardian_id))) ELSE {}
  IN IF byOid # {} THEN byOid ELSE Find(users, q(Str(guardian_id)))

\* the active guardian create_child looks for: first by ObjectId, then by string
FindGuardian(guardian_id) ==
  LET q(id) == PyDict(<< <<"_id", id>>, <<"role", "guardian">>, <<"is_active", TRUE>> >>)
      byOid == IF IsValidOid(guardian_id) THEN Find(users, q(Oid(guardian_id))) ELSE {}
  IN IF byOid # {} THEN byOid ELSE Find(users, q(Str(guardian_id)))

NextChildId ==
  ChildIdPool[1 + Cardinality({d \in children : d._id.val \in ChildIds})]

create_child(guardian_id, child_data, t) ==
  IF FindGuardian(guardian_id) = {}
    THEN Result("OwnerNotFound", <<>>, children)
    ELSE LET d == ChildInDict(child_data)
             doc == [_id |-> Oid(NextChildId), guardian_id |-> Str(guardian_id),
                     name |-> d.name,
                     date_of_birth |-> datetime_combine(d.date_of_birth),
                     notes |-> d.notes, is_active |-> TRUE,
                     created_at |-> t, updated_at |-> t]
         IN Result("Ok", <<ChildOut(doc)>>, children \cup {doc})

\* the part of create_child after the lookup, looking the guardian up again
create_child_insert_if_active(guardian_id, child_data, t) ==
  create_child(guardian_id, child_data, t)

\* create_child from "child_dict = child_data.dict()" on, for a call whose
\* guardian lookup has found the guardian: the document is built, inserted
\* and read back
create_child_insert(guardian_id, child_data, t) ==
  LET d == ChildInDict(child_data)
      doc == [_id |-> Oid(NextChildId), guardian_id |-> Str(guardian_id),
              name |-> d.name,
              date_of_birth |-> datetime_combine(d.date_of_birth),
              notes |-> d.notes, is_active |-> TRUE,
              created_at |-> t, updated_at |-> t]
  IN Result("Ok", <<ChildOut(doc)>>, children \cup {doc})

\* sequences listing the documents of S by created_at, newest first
NewestFirst(S) ==
  {s \in [1..Cardinality(S) -> S] :
      /\ \A i, j \in 1..Cardinality(S) : i # j => s[i] # s[j]
      /\ \A i, j \in 1..Cardinality(S) : i < j => s[i].created_at >= s[j].created_at}

\* the possible results of get_children_by_guardian (ties in created_at may
\* come in either order)
get_children_by_guardian(guardian_id) ==
  IF ~IsValidOid(guardian_id)
    THEN {Result("InternalError", <<>>, children)}
    ELSE {Result("Ok", [i \in 1..Len(s) |-> ChildOut(s[i])], children) :
             s \in NewestFirst(Find(children, GuardianQuery(guardian_id)))}

get_child_by_id(child_id, guardian_id) ==
  IF ~IsValidOid(child_id)
    THEN Result("InvalidId", <<>>, children)
    ELSE LET found == Find(children, ChildQuery(child_id, guardian_id))
         IN IF found = {}
              THEN Result("NotFoundOrForbidden", <<>>, children)
              ELSE Result("Ok", <<ChildOut(CHOOSE d \in found : TRUE)>>, children)

\* update_child judging success by matched_count instead of modified_count
update_child_if_matched(child_id, guardian_id, child_data) ==
  IF ~IsValidOid(child_id)
    THEN Result("InvalidId", <<>>, children)
    ELSE LET found == Find(children, ChildQuery(child_id, guardian_id))
         IN IF found = {}
              THEN Result("NotFoundOrForbidden", <<>>, children)
              ELSE LET old == CHOOSE d \in found : TRUE
                       new == SetFields(old, update_data(child_data))
                   IN Result("Ok", <<ChildOut(new)>>, (children \ {old}) \cup {new})

update_child(child_id, guardian_id, child_data) ==
  IF ~IsValidOid(child_id)
    THEN Result("InvalidId", <<>>, children)
    ELSE LET found == Find(children, ChildQuery(child_id, guardian_id))
         IN IF found = {}
              THEN Result("NotFoundOrForbidden", <<>>, children)
              ELSE LET old == CHOOSE d \in found : TRUE
                       new == SetFields(old, update_data(child_data))
                   IN IF new = old
                        THEN Result("NoChangesApplied", <<>>, children)
                        ELSE Result("Ok", <<ChildOut(new)>>,
                                    (children \ {old}) \cup {new})

\* delete_child with a filter that does not ask for an active record
delete_child_of_any_state(child_id, guardian_id) ==
  IF ~IsValidOid(child_id)
    THEN Result("InvalidId", <<>>, children)
    ELSE LET found == {d \in children : d._id = Oid(child_id)}
         IN IF found = {}
              THEN Result("NotFoundOrForbidden", <<>>, children)
              ELSE LET old == CHOOSE d \in found : TRUE
                       new == SetFields(old, [is_active |-> FALSE])
                   IN Result(IF new # old THEN "Ok" ELSE "NotModified", <<>>,
                             (children \ {old}) \cup {new})

delete_child(child_id, guardian_id) ==
  IF ~IsValidOid(child_id)
    THEN Result("InvalidId", <<>>, children)
    ELSE LET found == Find(children, ChildQuery(child_id, guardian_id))
         IN IF found = {}
              THEN Result("NotFoundOrForbidden", <<>>, children)
              ELSE LET old == CHOOSE d \in found : TRUE
                       new == SetFields(old, [is_active |-> FALSE])
                   IN Result(IF new # old THEN "Ok" ELSE "NotModified", <<>>,
                             (children \ {old}) \cup {new})

(***************************************************************************)
(* The child operations as steps of the system.                            *)
(***************************************************************************)
Called(op, gid, cid, data, r) ==
  [op |-> op, gid |-> gid, cid |-> cid, data |-> data, out |-> r.out, ret |-> r.ret]

\* the clock advances between two insertions
CreateChild(gid, cd) ==
  /\ Cardinality(children) < MaxChildren
  /\ LET r == IF ChildIn(cd).raised
                THEN Result("ValidationError", <<>>, children)
                ELSE create_child(gid, cd, now)
     IN /\ children' = r.coll
        /\ now' = IF r.out = "Ok" THEN now + 1 ELSE now
        /\ last' = Called("create", gid, "-", <<cd>>, r)
  /\ UNCHANGED <<client, database, today, users, tz, hdr, iss, calls>>

ListChildren(gid) ==
  /\ \E r \in get_children_by_guardian(gid) :
       /\ children' = r.coll
       /\ last' = Called("list", gid, "-", <<>>, r)
  /\ UNCHANGED <<client, database, today, users, now, tz, hdr, iss, calls>>

GetChild(cid, gid) ==
  /\ LET r == get_child_by_id(cid, gid)
     IN /\ children' = r.coll
        /\ last' = Called("get", gid, cid, <<>>, r)
  /\ UNCHANGED <<client, database, today, users, now, tz, hdr, iss, calls>>

UpdateChild(cid, gid, cd) ==
  /\ LET r == IF ChildIn(cd).raised
                THEN Result("ValidationError", <<>>, children)
                ELSE update_child(cid, gid, cd)
     IN /\ children' = r.coll
        /\ last' = Called("update", gid, cid, <<cd>>, r)
  /\ UNCHANGED <<client, database, today, users, now, tz, hdr, iss, calls>>

DeleteChild(cid, gid) ==
  /\ LET r == delete_child(cid, gid)
     IN /\ children' = r.coll
        /\ last' = Called("delete", gid, cid, <<>>, r)
  /\ UNCHANGED <<client, database, today, users, now, tz, hdr, iss, calls>>

\* a record written before is_active existed, its owner stored as an ObjectId
LegacyChild ==
  [_id |-> Oid(LegacyChildId), guardian_id |-> Oid("u1"), name |-> "ann",
   date_of_birth |-> datetime_combine(BirthDate0), notes |-> "None", created_at |-> 0, updated_at |-> 0]

NoCall == [op |-> "none"]

\* the requests the server may be handling at once, none of them begun
Requests == 1..MaxRequests
Idle == [pc |-> "idle"]
NoCalls == [r \in Requests |-> Idle]
NoHeader == [kind |-> "absent"]
NoIssue == [kind |-> "none"]

SeedUser(id, role, active) ==
  [UserDB(Email(id, "x.com"), role, get_password_hash("longenough1", "s1"), 0)
     EXCEPT !._id = Oid(id), !.is_active = active]

InitChild ==
  /\ users = {SeedUser("u1", "guardian", TRUE), SeedUser("u2", "guardian", TRUE),
              SeedUser("u3", "guardian", FALSE), SeedUser("u4", "driver", TRUE)}
  /\ children \in {{}, {LegacyChild}}
  /\ now = 1
  /\ tz = 0
  /\ hdr = NoHeader
  /\ iss = NoIssue
  /\ last = NoCall
  /\ calls = NoCalls
  /\ client = "connected"
  /\ database = "saferide_kids"
  /\ today = Today0

NextChild ==
  \/ \E gid \in OwnerIds, cd \in ChildInputs : CreateChild(gid, cd)
  \/ \E gid \in Callers : ListChildren(gid)
  \/ \E cid \in RequestChildIds, gid \in Callers : GetChild(cid, gid)
  \/ \E cid \in RequestChildIds, gid \in Callers, cd \in ChildInputs :
        UpdateChild(cid, gid, cd)
  \/ \E cid \in RequestChildIds, gid \in Callers : DeleteChild(cid, gid)

SpecChild == InitChild /\ [][NextChild]_vars

(***************************************************************************)
(* Token codec (app/auth/utils.py on PyJWT, app/auth/security.py on        *)
(* python-jose).  A token is the empty string, a string that is no JWT, or *)
(* a JWT: a payload and a signature that is good (made with the configured *)
(* secret) or bad.                                                         *)
(***************************************************************************)
EmptyToken == [kind |-> "empty"]
GarbageToken == [kind |-> "garbage"]
Jwt(payload, sig) == [kind |-> "jwt", sig |-> sig, payload |-> payload]

\* expires_delta 0 stands for None (both are falsy in "if expires_delta:")
create_access_token(data, expires_delta, t) ==
  LET expire == IF expires_delta # 0 THEN t + expires_delta
                                     ELSE t + JwtExpireMinutes
  IN Jwt(SetFields(data, [exp |-> expire]), "good")

\* jwt.decode of PyJWT: the error it raises, or "none"
PyJwtDecode(token, t) ==
  CASE token.kind # "jwt" -> "DecodeError"
    [] token.kind = "jwt" /\ token.sig # "good" -> "InvalidSignatureError"
    [] token.kind = "jwt" /\ token.sig = "good"
         /\ "exp" \in DOMAIN token.payload /\ token.payload.exp <= t
         -> "ExpiredSignatureError"
    [] OTHER -> "none"

\* jwt.decode of python-jose: expiry is "exp < now"
JoseDecode(token, t) ==
  CASE token.kind # "jwt" -> "JWTError"
    [] token.kind = "jwt" /\ token.sig # "good" -> "JWTError"
    [] token.kind = "jwt" /\ token.sig = "good"
         /\ "exp" \in DOMAIN token.payload /\ token.payload.exp < t
         -> "ExpiredSignatureError"
    [] OTHER -> "none"

\* datetime.fromtimestamp(exp): the naive local time of the instant exp
fromtimestamp(exp, zone) == exp + zone

\* verify_token of utils.py with the expired branch telling the caller so
verify_token_expiry_visible(token, t, zone) ==
  LET err == PyJwtDecode(token, t)
  IN IF err = "ExpiredSignatureError" THEN <<[error |-> "expired"]>>
     ELSE IF err # "none" THEN <<>>
     ELSE IF "exp" \in DOMAIN token.payload /\ token.payload.exp # 0
               /\ t > fromtimestamp(token.payload.exp, zone)
            THEN <<[error |-> "expired"]>>
            ELSE <<token.payload>>

\* verify_token of utils.py: <<payload>>, or <<>> for None
verify_token(token, t, zone) ==
  LET err == PyJwtDecode(token, t)
  IN IF err # "none" THEN <<>>
     ELSE IF "exp" \in DOMAIN token.payload /\ token.payload.exp # 0
               /\ t > fromtimestamp(token.payload.exp, zone)
            THEN <<>>
            ELSE <<token.payload>>

credentials_exception == Raised(401, <<"Could not validate credentials">>)

\* verify_token of security.py: TokenData, or the caller's exception
security_verify_token(token, t) ==
  IF JoseDecode(token, t) # "none" THEN credentials_exception
  ELSE IF "sub" \notin DOMAIN token.payload THEN credentials_exception
  ELSE Returned(<<[email |-> token.payload.sub,
                   role |-> IF "role" \in DOMAIN token.payload
                              THEN token.payload.role ELSE "None"]>>)

\* data={"sub": user.email, "role": user.role, "user_id": str(user.id)}
TokenClaims(user) == [sub |-> user.email, role |-> user.role, user_id |-> user.id]

(***************************************************************************)
(* Guards of app/auth/middleware.py.                                       *)
(***************************************************************************)
Bearer(token) == [kind |-> "bearer", token |-> token]

extract_token_from_header(credentials) ==
  IF credentials.kind = "absent"
    THEN Raised(401, <<"Authorization header missing">>)
  ELSE IF credentials.token.kind = "empty"
    THEN Raised(401, <<"Token missing in Authorization header">>)
  ELSE Returned(<<credentials.token>>)

verify_jwt_token(credentials, t, zone) ==
  LET tok == extract_token_from_header(credentials)
  IN IF tok.raised THEN tok
     ELSE LET payload == verify_token(tok.value[1], t, zone)
          IN IF payload = <<>>
               THEN Raised(401, <<"Invalid or expired token">>)
             ELSE IF "sub" \notin DOMAIN payload[1]
               THEN Raised(401, <<"Invalid token: missing subject">>)
             ELSE Returned(payload)

require_role(allowed_roles, credentials, t, zone) ==
  LET user_data == verify_jwt_token(credentials, t, zone)
  IN IF user_data.raised THEN user_data
     ELSE IF "role" \notin DOMAIN user_data.value[1]
       THEN Raised(401, <<"Invalid token: missing role">>)
     ELSE IF user_data.value[1].role \notin allowed_roles
       THEN Raised(403, <<"Access denied", allowed_roles, user_data.value[1].role>>)
     ELSE user_data

get_current_user_optional(credentials, t, zone) ==
  LET tok == extract_token_from_header(credentials)
  IN IF tok.raised THEN tok
     ELSE Returned(verify_token(tok.value[1], t, zone))

(***************************************************************************)
(* Guards of app/auth/dependencies.py.  They are given the credentials     *)
(* HTTPBearer extracted, so the header is present.                         *)
(***************************************************************************)
get_user_by_email(email) ==
  LET found == Find(users, PyDict(<< <<"email", email>> >>))
  IN IF found = {} THEN Returned(<<>>)
     ELSE LET user == CHOOSE u \in found : TRUE
          IN IF UserOutValidates(user) THEN Returned(<<UserOut(user)>>)
             ELSE Unhandled("ValidationError")

\* reading user.is_active: an attribute the object has, or AttributeError
get_current_user(credentials, t) ==
  LET token_data == security_verify_token(credentials.token, t)
  IN IF token_data.raised THEN token_data
     ELSE LET user == get_user_by_email(token_data.value[1].email)
          IN IF user.raised THEN user
             ELSE IF user.value = <<>> THEN credentials_exception
             ELSE IF "is_active" \notin DOMAIN user.value[1]
               THEN Unhandled("AttributeError")
             ELSE IF ~user.value[1].is_active
               THEN Raised(400, <<"Inactive user">>)
             ELSE user

require_roles(allowed_roles, credentials, t) ==
  LET current_user == get_current_user(credentials, t)
  IN IF current_user.raised THEN current_user
     ELSE IF current_user.value[1].role \notin allowed_roles
       THEN Raised(403, <<"Operation not permitted">>)
     ELSE current_user

(***************************************************************************)
(* The convenience guards: the role sets the two modules hand to their     *)
(* guard factory under each name.                                          *)
(***************************************************************************)
ConvenienceGuards == {"require_admin", "require_driver", "require_guardian"}

\* middleware.py: require_admin, require_driver, require_guardian
MiddlewareGuard(name) ==
  CASE name = "require_admin" -> {"admin"}
    [] name = "require_driver" -> {"driver"}
    [] name = "require_guardian" -> {"guardian"}

\* dependencies.py: require_admin, require_driver, require_guardian
DependenciesGuard(name) ==
  CASE name = "require_admin" -> {"admin"}
    [] name = "require_driver" -> {"driver", "admin"}
    [] name = "require_guardian" -> {"guardian", "admin"}

\* middleware.py: require_any_authenticated_user is verify_jwt_token itself
require_any_authenticated_user(credentials, t, zone) ==
  verify_jwt_token(credentials, t, zone)

\* dependencies.py: require_any_role = require_roles(all three roles)
require_any_role(credentials, t) ==
  require_roles({"guardian", "driver", "admin"}, credentials, t)

(***************************************************************************)
(* Tokens and guards as steps of the system.  last describes the latest    *)
(* call made at the present instant; it is forgotten when the clock moves. *)
(***************************************************************************)
AuthUsers ==
  {SeedUser("u1", "guardian", TRUE), SeedUser("u3", "guardian", FALSE),
   SeedUser("u4", "driver", TRUE), SeedUser("u5", "admin", TRUE)}

\* the claims login puts in a token for the stored user u
LoginClaims(u) == TokenClaims(UserOut(u))

\* claim sets a token may carry: those of a stored user, those of a user no
\* longer stored, and sets that lack the subject or the role
ClaimSets ==
  {LoginClaims(u) : u \in AuthUsers}
    \cup {[sub |-> Email("u9", "x.com"), role |-> "guardian", user_id |-> "u9"],
          [role |-> "guardian", user_id |-> "u1"],
          [sub |-> Email("u1", "x.com"), user_id |-> "u1"]}

RoleSets == SUBSET Roles \ {{}}

TzOffsets == {-2, 0, 2}

Asked(op, roles, out) == [op |-> op, roles |-> roles, out |-> out]

Tick ==
  /\ now < MaxTime
  /\ now' = now + 1
  /\ last' = NoCall
  /\ UNCHANGED <<client, database, today, users, children, tz, hdr, iss, calls>>

IssueToken(data, ttl) ==
  /\ hdr' = Bearer(create_access_token(data, ttl, now))
  /\ iss' = [kind |-> "issued", t0 |-> now, data |-> data,
             ttl |-> IF ttl # 0 THEN ttl ELSE JwtExpireMinutes]
  /\ last' = NoCall
  /\ UNCHANGED <<client, database, today, users, children, now, tz, calls>>

\* the client drops the header, empties it, sends a non-token, or sends the
\* token with a signature not made with the secret
Tampered(how) ==
  CASE how = "absent" -> NoHeader
    [] how = "empty" -> Bearer(EmptyToken)
    [] how = "garbage" -> Bearer(GarbageToken)
    [] how = "resigned" -> Bearer(Jwt(hdr.token.payload, "bad"))

Tamper(how) ==
  /\ how = "resigned" => hdr.kind = "bearer" /\ hdr.token.kind = "jwt"
  /\ Tampered(how) # hdr
  /\ hdr' = Tampered(how)
  /\ iss' = NoIssue
  /\ last' = NoCall
  /\ UNCHANGED <<client, database, today, users, children, now, tz, calls>>

HasToken == hdr.kind = "bearer"

VerifyToken ==
  /\ HasToken
  /\ last' = Asked("verify_token", {}, Returned(verify_token(hdr.token, now, tz)))
  /\ UNCHANGED <<client, database, today, users, children, now, tz, hdr, iss, calls>>

SecurityVerifyToken ==
  /\ HasToken
  /\ last' = Asked("security_verify_token", {}, security_verify_token(hdr.token, now))
  /\ UNCHANGED <<client, database, today, users, children, now, tz, hdr, iss, calls>>

VerifyJwtToken ==
  /\ last' = Asked("verify_jwt_token", {}, verify_jwt_token(hdr, now, tz))
  /\ UNCHANGED <<client, database, today, users, children, now, tz, hdr, iss, calls>>

RequireRole(allowed_roles) ==
  /\ last' = Asked("require_role", allowed_roles,
                   require_role(allowed_roles, hdr, now, tz))
  /\ UNCHANGED <<client, database, today, users, children, now, tz, hdr, iss, calls>>

RequireRoles(allowed_roles) ==
  /\ HasToken
  /\ last' = Asked("require_roles", allowed_roles,
                   require_roles(allowed_roles, hdr, now))
  /\ UNCHANGED <<client, database, today, users, children, now, tz, hdr, iss, calls>>

GetCurrentUserOptional ==
  /\ last' = Asked("get_current_user_optional", {},
                   get_current_user_optional(hdr, now, tz))
  /\ UNCHANGED <<client, database, today, users, children, now, tz, hdr, iss, calls>>

InitAuth ==
  /\ users = AuthUsers
  /\ children = {}
  /\ now = 1
  /\ tz \in TzOffsets
  /\ hdr = NoHeader
  /\ iss = NoIssue
  /\ last = NoCall
  /\ calls = NoCalls
  /\ client = "connected"
  /\ database = "saferide_kids"
  /\ today = Today0

NextAuth ==
  \/ Tick
  \/ \E data \in ClaimSets, ttl \in 0..MaxTtl : IssueToken(data, ttl)
  \/ \E how \in {"absent", "empty", "garbage", "resigned"} : Tamper(how)
  \/ VerifyToken
  \/ SecurityVerifyToken
  \/ VerifyJwtToken
  \/ \E R \in RoleSets : RequireRole(R)
  \/ \E R \in RoleSets : RequireRoles(R)
  \/ GetCurrentUserOptional

SpecAuth == InitAuth /\ [][NextAuth]_vars

(***************************************************************************)
(* Registration and login (app/services/user_service.py,                   *)
(* app/routers/auth.py) and the two maintenance scripts that write the     *)
(* user store (create_test_user.py, check_user.py).                        *)
(***************************************************************************)
PasswordLen(password) == IF password = "short" THEN 5 ELSE 11

RegisterPasswords == Passwords \cup {"short"}

\* UserIn(**body): the validated input, or <<>> when validation fails
UserIn(email, password, role) ==
  IF PasswordLen(password) < 8 THEN <<>>
  ELSE <<[email |-> EmailStr(email), password |-> password, role |-> role]>>

Outcome(out, coll) == [out |-> out, coll |-> coll]

EmailAlreadyRegistered == Raised(400, <<"Email already registered">>)

create_user(user_data, salt, t) ==
  IF Find(users, PyDict(<< <<"email", user_data.email>> >>)) # {}
    THEN Outcome(EmailAlreadyRegistered, users)
  ELSE LET doc == UserDB(user_data.email, user_data.role,
                         get_password_hash(user_data.password, salt), t)
       IN IF \E u \in users : u._id = doc._id
            THEN Outcome(EmailAlreadyRegistered, users)   \* DuplicateKeyError
          ELSE IF UserOutValidates(doc)
            THEN Outcome(Returned(<<UserOut(doc)>>), users \cup {doc})
          ELSE Outcome(Unhandled("ValidationError"), users \cup {doc})

\* POST /auth/register
register(email, password, role, salt, t) ==
  LET user_data == UserIn(email, password, role)
  IN IF user_data = <<>> THEN Outcome(Raised(422, <<"validation error">>), users)
     ELSE LET r == create_user(user_data[1], salt, t)
          IN IF ~r.out.raised
               THEN Outcome([r.out EXCEPT !.status = 201], r.coll)
             ELSE IF r.out = EmailAlreadyRegistered THEN r
             ELSE Outcome(Raised(500, <<"An error occurred during registration">>
                                        \o r.out.detail), r.coll)

authenticate_user(email, password) ==
  LET found == Find(users, PyDict(<< <<"email", email>> >>))
  IN IF found = {} THEN Returned(<<>>)
     ELSE LET user == CHOOSE u \in found : TRUE
          IN IF ~verify_password(password, user.hashed_password)
               THEN Returned(<<>>)
             ELSE IF UserOutValidates(user) THEN Returned(<<UserOut(user)>>)
             ELSE Unhandled("ValidationError")

IncorrectEmailOrPassword == Raised(401, <<"Incorrect email or password">>)

Token(access_token) == [access_token |-> access_token, token_type |-> "bearer"]

\* POST /auth/login: the form's username is used as it was typed
login_with_form(username, password, t) ==
  LET user == authenticate_user(username, password)
  IN IF user.raised THEN user
     ELSE IF user.value = <<>> THEN IncorrectEmailOrPassword
     ELSE Returned(<<Token(create_access_token(TokenClaims(user.value[1]), 0, t))>>)

\* login_with_json telling a client that the address is not on file
login_with_json_user_not_found(email, password, t) ==
  IF Find(users, PyDict(<< <<"email", EmailStr(email)>> >>)) = {}
    THEN Raised(404, <<"User not found">>)
    ELSE login_with_form(EmailStr(email), password, t)

\* POST /auth/login-json: LoginRequest validates the address as EmailStr
login_with_json(email, password, t) ==
  LET user == authenticate_user(EmailStr(email), password)
  IN IF user.raised THEN user
     ELSE IF user.value = <<>> THEN IncorrectEmailOrPassword
     ELSE Returned(<<Token(create_access_token(TokenClaims(user.value[1]), 0, t))>>)

\* the address and password create_test_user.py writes
test_email == Email("g", "x.com")
test_password == "longenough1"

\* the ObjectId insert_one gives a document that has no _id
NextUserId(coll) ==
  UserIdPool[CHOOSE i \in 1..Len(UserIdPool) :
               /\ \A u \in coll : u._id # Oid(UserIdPool[i])
               /\ \A j \in 1..(i - 1) : \E u \in coll : u._id = Oid(UserIdPool[j])]

\* create_test_user.py: delete the stored test user, insert a new one
create_test_user(salt, t) ==
  LET found == Find(users, PyDict(<< <<"email", test_email>> >>))
      kept == IF found = {} THEN users ELSE users \ {CHOOSE u \in found : TRUE}
  IN kept \cup {[_id |-> Oid(NextUserId(kept)), email |-> test_email,
                 hashed_password |-> get_password_hash(test_password, salt),
                 role |-> "guardian", created_at |-> t, updated_at |-> t]}

\* check_user.py: update_one({'email': ...}, {'$set': {'is_active': True}})
fix_user ==
  LET found == Find(users, PyDict(<< <<"email", test_email>> >>))
  IN IF found = {} THEN users
     ELSE LET user == CHOOSE u \in found : TRUE
          IN (users \ {user}) \cup {SetFields(user, [is_active |-> TRUE])}

Sent(op, email, password, out) ==
  [op |-> op, email |-> email, password |-> password, out |-> out]

Register(email, password, role, salt) ==
  /\ LET r == register(email, password, role, salt, now)
     IN /\ users' = r.coll
        /\ last' = Sent("register", email, password, r.out)
  /\ UNCHANGED <<client, database, today, children, now, tz, hdr, iss, calls>>

CreateTestUser(salt) ==
  /\ users' = create_test_user(salt, now)
  /\ last' = NoCall
  /\ UNCHANGED <<client, database, today, children, now, tz, hdr, iss, calls>>

FixUser ==
  /\ users' = fix_user
  /\ last' = NoCall
  /\ UNCHANGED <<client, database, today, children, now, tz, hdr, iss, calls>>

\* the header a client sends after a login: the token it was given, if any
Authorization(out) ==
  IF out.raised THEN hdr ELSE Bearer(out.value[1].access_token)

\* history: the stored user whose credentials a successful login verified
LoggedIn(out, email) ==
  IF out.raised THEN iss
  ELSE [kind |-> "login", t0 |-> now,
        user_id |-> (CHOOSE u \in users : u.email = email)._id.val]

LoginForm(username, password) ==
  /\ LET out == login_with_form(username, password, now)
     IN /\ last' = Sent("login_with_form", username, password, out)
        /\ hdr' = Authorization(out)
        /\ iss' = LoggedIn(out, username)
  /\ UNCHANGED <<client, database, today, users, children, now, tz, calls>>

LoginJson(email, password) ==
  /\ LET out == login_with_json(email, password, now)
     IN /\ last' = Sent("login_with_json", email, password, out)
        /\ hdr' = Authorization(out)
        /\ iss' = LoggedIn(out, EmailStr(email))
  /\ UNCHANGED <<client, database, today, users, children, now, tz, calls>>

InitUser ==
  /\ users = {}
  /\ children = {}
  /\ now = 1
  /\ tz = 0
  /\ hdr = NoHeader
  /\ iss = NoIssue
  /\ last = NoCall
  /\ calls = NoCalls
  /\ client = "connected"
  /\ database = "saferide_kids"
  /\ today = Today0

NextUser ==
  \/ \E email \in RawEmails, password \in RegisterPasswords, role \in Roles,
        salt \in Salts : Register(email, password, role, salt)
  \/ \E salt \in Salts : CreateTestUser(salt)
  \/ FixUser
  \/ \E username \in RawEmails, password \in Passwords : LoginForm(username, password)
  \/ \E email \in RawEmails, password \in Passwords : LoginJson(email, password)
  \/ \E R \in RoleSets : RequireRole(R)
  \/ \E R \in RoleSets : RequireRoles(R)

SpecUser == InitUser /\ [][NextUser]_vars

(***************************************************************************)
(* The children endpoints (app/routers/child.py): the guard, the owner id  *)
(* taken from what the guard returned, and the service call.  A request    *)
(* carries the path's child_id, the body, and whatever guardian_id the     *)
(* client chose to send along in the body or the query.                    *)
(***************************************************************************)
guardian_required(credentials, t, zone) ==
  require_role({"guardian"}, credentials, t, zone)

Request(child_id, body, guardian_id) ==
  [child_id |-> child_id, body |-> body, guardian_id |-> guardian_id]

\* an endpoint that takes the owner id from the request
guardian_id_from_request(current_user, request) == request.guardian_id

\* guardian_id = str(current_user.get("user_id"))
guardian_id_of(current_user, request) ==
  IF "user_id" \in DOMAIN current_user THEN current_user.user_id ELSE "None"

\* what an endpoint did: the guard's answer and, when the guard admitted the
\* caller, the owner id handed to the service and the service's result
Rejected(op, request, guard) ==
  [op |-> op, request |-> request, guard |-> guard, handed |-> FALSE]

Served(op, request, guard, gid, r) ==
  [op |-> op, request |-> request, guard |-> guard, handed |-> TRUE,
   gid |-> gid, out |-> r.out, ret |-> r.ret]

CreateChildEndpoint(request) ==
  /\ Cardinality(children) < MaxChildren
  /\ LET guard == guardian_required(hdr, now, tz)
     IN IF guard.raised
          THEN /\ last' = Rejected("create", request, guard)
               /\ UNCHANGED <<children, now>>
          ELSE LET gid == guardian_id_of(guard.value[1], request)
                   r == IF ChildIn(request.body).raised
                          THEN Result("ValidationError", <<>>, children)
                          ELSE create_child(gid, request.body, now)
               IN /\ children' = r.coll
                  /\ now' = IF r.out = "Ok" THEN now + 1 ELSE now
                  /\ last' = Served("create", request, guard, gid, r)
  /\ UNCHANGED <<client, database, today, users, tz, hdr, iss, calls>>

GetMyChildren(request) ==
  /\ LET guard == guardian_required(hdr, now, tz)
     IN IF guard.raised
          THEN /\ last' = Rejected("list", request, guard)
               /\ UNCHANGED children
          ELSE LET gid == guardian_id_of(guard.value[1], request)
               IN \E r \in get_children_by_guardian(gid) :
                    /\ children' = r.coll
                    /\ last' = Served("list", request, guard, gid, r)
  /\ UNCHANGED <<client, database, today, users, now, tz, hdr, iss, calls>>

GetChildEndpoint(request) ==
  /\ LET guard == guardian_required(hdr, now, tz)
     IN IF guard.raised
          THEN /\ last' = Rejected("get", request, guard)
               /\ UNCHANGED children
          ELSE LET gid == guardian_id_of(guard.value[1], request)
                   r == get_child_by_id(request.child_id, gid)
               IN /\ children' = r.coll
                  /\ last' = Served("get", request, guard, gid, r)
  /\ UNCHANGED <<client, database, today, users, now, tz, hdr, iss, calls>>

UpdateChildEndpoint(request) ==
  /\ LET guard == guardian_required(hdr, now, tz)
     IN IF guard.raised
          THEN /\ last' = Rejected("update", request, guard)
               /\ UNCHANGED children
          ELSE LET gid == guardian_id_of(guard.value[1], request)
                   r == IF ChildIn(request.body).raised
                          THEN Result("ValidationError", <<>>, children)
                          ELSE update_child(request.child_id, gid, request.body)
               IN /\ children' = r.coll
                  /\ last' = Served("update", request, guard, gid, r)
  /\ UNCHANGED <<client, database, today, users, now, tz, hdr, iss, calls>>

DeleteChildEndpoint(request) ==
  /\ LET guard == guardian_required(hdr, now, tz)
     IN IF guard.raised
          THEN /\ last' = Rejected("delete", request, guard)
               /\ UNCHANGED children
          ELSE LET gid == guardian_id_of(guard.value[1], request)
                   r == delete_child(request.child_id, gid)
               IN /\ children' = r.coll
                  /\ last' = Served("delete", request, guard, gid, r)
  /\ UNCHANGED <<client, database, today, users, now, tz, hdr, iss, calls>>

ApiUsers ==
  {SeedUser("u1", "guardian", TRUE), SeedUser("u2", "guardian", TRUE),
   SeedUser("u4", "driver", TRUE)}

ApiEmails == {u.email : u \in ApiUsers}

\* requests without a path parameter or body carry "-" and the empty body
Requests0 == {Request("-", Body0, g) : g \in Callers}
ApiBodies == {Body0, BodyNotes("nut allergy")}
RequestsBody == {Request("-", Body0, g) : g \in Callers}
RequestsId == {Request(c, Body0, g) : c \in ChildIds, g \in Callers}
RequestsIdBody ==
  {Request(c, b, g) : c \in ChildIds, b \in ApiBodies, g \in Callers}

InitApi ==
  /\ users = ApiUsers
  /\ children = {}
  /\ now = 1
  /\ tz = 0
  /\ hdr = NoHeader
  /\ iss = NoIssue
  /\ last = NoCall
  /\ calls = NoCalls
  /\ client = "connected"
  /\ database = "saferide_kids"
  /\ today = Today0

NextApi ==
  \/ \E email \in ApiEmails, password \in Passwords : LoginForm(email, password)
  \/ \E email \in ApiEmails, password \in Passwords : LoginJson(email, password)
  \/ \E how \in {"absent", "garbage", "resigned"} : Tamper(how)
  \/ \E request \in RequestsBody : CreateChildEndpoint(request)
  \/ \E request \in Requests0 : GetMyChildren(request)
  \/ \E request \in RequestsId : GetChildEndpoint(request)
  \/ \E request \in RequestsIdBody : UpdateChildEndpoint(request)
  \/ \E request \in RequestsId : DeleteChildEndpoint(request)

SpecApi == InitApi /\ [][NextApi]_vars

(***************************************************************************)
(* Soft deletes handled concurrently.  delete_child is a coroutine: it     *)
(* validates the id, awaits db.children.update_one, which MongoDB applies  *)
(* to the one document atomically, and then answers from the counts of the *)
(* result.  Several requests may be between two of these steps at once.    *)
(***************************************************************************)
\* the two records the owners created before the deletes begin
RecordOf(cid, gid, t) ==
  [_id |-> Oid(cid), guardian_id |-> Str(gid), name |-> "ann",
   date_of_birth |-> datetime_combine(BirthDate0), notes |-> "None",
   is_active |-> TRUE, created_at |-> t, updated_at |-> t]

\* the request is accepted and its coroutine runs up to "await update_one"
DeleteBegin(r, cid, gid) ==
  /\ calls[r].pc = "idle"
  /\ calls' = [calls EXCEPT ![r] =
                 IF IsValidOid(cid)
                   THEN [pc |-> "await update_one", cid |-> cid, gid |-> gid]
                   ELSE [pc |-> "done", cid |-> cid, gid |-> gid, out |-> "InvalidId"]]
  /\ UNCHANGED <<client, database, today, users, children, now, tz, hdr, iss, last>>

\* the database applies the update_one of request r
DeleteUpdateOne(r) ==
  /\ calls[r].pc = "await update_one"
  /\ LET res == delete_child(calls[r].cid, calls[r].gid)
     IN /\ children' = res.coll
        /\ calls' = [calls EXCEPT ![r] = [pc |-> "result", cid |-> calls[r].cid,
                                          gid |-> calls[r].gid, out |-> res.out]]
  /\ UNCHANGED <<client, database, today, users, now, tz, hdr, iss, last>>

\* the coroutine resumes and answers
DeleteReturn(r) ==
  /\ calls[r].pc = "result"
  /\ calls' = [calls EXCEPT ![r].pc = "done"]
  /\ last' = [op |-> "delete", gid |-> calls[r].gid, cid |-> calls[r].cid,
              data |-> <<>>, out |-> calls[r].out, ret |-> <<>>]
  /\ UNCHANGED <<client, database, today, users, children, now, tz, hdr, iss>>

InitDelete ==
  /\ users = {SeedUser("u1", "guardian", TRUE), SeedUser("u2", "guardian", TRUE)}
  /\ children = {RecordOf("c1", "u1", 1), RecordOf("c2", "u2", 2)}
  /\ now = 3
  /\ tz = 0
  /\ hdr = NoHeader
  /\ iss = NoIssue
  /\ last = NoCall
  /\ calls = NoCalls
  /\ client = "connected"
  /\ database = "saferide_kids"
  /\ today = Today0

NextDelete ==
  \/ \E r \in Requests, cid \in {"c1", "c2", "c3", "zz"}, gid \in Callers :
        DeleteBegin(r, cid, gid)
  \/ \E r \in Requests : DeleteUpdateOne(r)
  \/ \E r \in Requests : DeleteReturn(r)

SpecDelete == InitDelete /\ [][NextDelete]_vars

(***************************************************************************)
(* The connection to the store (app/database.py) and the lifespan of the   *)
(* application (app/main.py).  client is "None", or a client that has been *)
(* created, or one whose ping was answered, or one that has been closed.   *)
(* Every service coroutine begins with db = await get_database().          *)
(***************************************************************************)
\* get_database handing out whatever the global holds
get_database_unchecked == Returned(<<database>>)

get_database ==
  IF database = "None"
    THEN Unhandled("RuntimeError: Database not initialized")
    ELSE Returned(<<database>>)

\* what the ping of connect_to_mongo may meet
ConnectOutcomes == {"ok", "ping failed", "client not created"}

\* connect_to_mongo: both globals are assigned before the ping is awaited
ConnectToMongo(outcome) ==
  /\ IF outcome = "client not created"
       THEN UNCHANGED <<client, database>>
       ELSE /\ client' = IF outcome = "ok" THEN "connected" ELSE "created"
            /\ database' = "saferide_kids"
  /\ last' = [op |-> "connect_to_mongo", raised |-> outcome # "ok"]
  /\ UNCHANGED <<users, children, now, tz, hdr, iss, calls, today>>

\* close_mongo_connection: closes the client, leaves both globals assigned
CloseMongoConnection ==
  /\ client' = IF client # "None" THEN "closed" ELSE client
  /\ last' = [op |-> "close_mongo_connection", raised |-> FALSE]
  /\ UNCHANGED <<database, users, children, now, tz, hdr, iss, calls, today>>

\* a service coroutine that was not given a handle: the error leaves it
\* before its first query
FailedFast(op) ==
  /\ last' = [op |-> op, error |-> get_database.detail[1]]
  /\ UNCHANGED <<users, children, now, tz, hdr, iss, calls, client, database, today>>

\* a query sent through a client that is closed or never reached the server
StoreError(op) ==
  /\ last' = [op |-> op, error |-> "PyMongoError"]
  /\ UNCHANGED <<users, children, now, tz, hdr, iss, calls, client, database, today>>

\* op, whose steps after get_database are A, called in the present state
WithDatabase(op, A) ==
  IF get_database.raised THEN FailedFast(op)
  ELSE IF client = "connected" THEN A
  ELSE A \/ StoreError(op)

\* get_user_by_email called by itself
GetUserByEmail(email) ==
  /\ last' = Sent("get_user_by_email", email, "-", get_user_by_email(email))
  /\ UNCHANGED <<users, children, now, tz, hdr, iss, calls, client, database, today>>

CoreOps ==
  {"register", "login_with_form", "login_with_json", "get_user_by_email",
   "create", "list", "get", "update", "delete"}

InitDb ==
  /\ users = {SeedUser("u1", "guardian", TRUE)}
  /\ children = {}
  /\ now = 1
  /\ tz = 0
  /\ hdr = NoHeader
  /\ iss = NoIssue
  /\ last = NoCall
  /\ calls = NoCalls
  /\ client = "None"
  /\ database = "None"
  /\ today = Today0

NextDb ==
  \/ \E outcome \in ConnectOutcomes : ConnectToMongo(outcome)
  \/ CloseMongoConnection
  \/ WithDatabase("register",
       \E email \in {Email("g", "x.com"), Email("u1", "x.com")} :
          Register(email, "longenough1", "guardian", "s1"))
  \/ WithDatabase("login_with_form",
       \E password \in Passwords : LoginForm(Email("u1", "x.com"), password))
  \/ WithDatabase("login_with_json",
       \E password \in Passwords : LoginJson(Email("u1", "x.com"), password))
  \/ WithDatabase("get_user_by_email",
       \E email \in {Email("g", "x.com"), Email("u1", "x.com")} : GetUserByEmail(email))
  \/ WithDatabase("create", \E cd \in ApiBodies : CreateChild("u1", cd))
  \/ WithDatabase("list", ListChildren("u1"))
  \/ WithDatabase("get", \E cid \in ChildIds : GetChild(cid, "u1"))
  \/ WithDatabase("update",
       \E cid \in ChildIds, cd \in ApiBodies : UpdateChild(cid, "u1", cd))
  \/ WithDatabase("delete", \E cid \in ChildIds : DeleteChild(cid, "u1"))

SpecDb == InitDb /\ [][NextDb]_vars

(***************************************************************************)
(* The credential store of app/auth/security.py (passlib), which keeps the *)
(* names of app/auth/utils.py; results are outcomes because its verify can *)
(* raise.                                                                  *)
(***************************************************************************)
security_get_password_hash(password, salt) == <<"$2b$", salt, password>>

\* pwd_context.verify: a string that is no hash of a configured scheme makes
\* passlib raise UnknownHashError, which nothing here catches
security_verify_password(plain_password, hashed_password) ==
  IF WellFormedHash(hashed_password)
    THEN Returned(<<hashed_password[3] = plain_password>>)
    ELSE Unhandled("UnknownHashError")

\* hash arguments that are no bcrypt hash: the empty string, other text
MalformedHashes == {<<>>, <<"garbage">>, <<"$2b$", "cut">>}

(***************************************************************************)
(* The calendar.                                                           *)
(***************************************************************************)
IsLeap(y) == (y % 4 = 0 /\ y % 100 # 0) \/ y % 400 = 0

DaysIn(y, m) ==
  IF m = 2 THEN (IF IsLeap(y) THEN 29 ELSE 28)
  ELSE IF m \in {4, 6, 9, 11} THEN 30 ELSE 31

(***************************************************************************)
(* The pure functions applied to inputs.  The initial states hold the      *)
(* arguments of one call (in last) and the date of the host; the one step  *)
(* of a behaviour makes the call.                                          *)
(***************************************************************************)
AllDates(years) ==
  {Date(y, m, d) : y \in years, m \in 1..12, d \in 1..31} \ 
     {x \in {Date(y, m, d) : y \in years, m \in {2, 4, 6, 9, 11}, d \in 29..31} :
         x.day > DaysIn(x.year, x.month)}

\* the dates the host may show: turns of the year and the days around the
\* end of February, in a leap year and in the years after it
TodayDates ==
  {x \in {Date(y, m, d) : y \in 2024..(2023 + MaxTodayYears), m \in {1, 2, 3, 6, 12},
                           d \in {1, 15, 28, 29, 31}} :
      /\ x.day <= DaysIn(x.year, x.month)
      /\ <<x.month, x.day>> \in {<<1, 1>>, <<2, 28>>, <<2, 29>>, <<3, 1>>,
                                  <<6, 15>>, <<12, 31>>}}

BirthDates == AllDates((2024 - MaxAgeYears)..(2024 + MaxTodayYears))

Degrees == {-181, -180, -91, -90, 0, 90, 91, 180, 181}

CoordinateInputs ==
  {<<lng, lat>> : lng \in Degrees, lat \in Degrees}
    \cup {<<0>>, <<0, 0, 0>>}

HashInputs ==
  {[module |-> m, plain |-> p, hashed |-> h] :
     m \in {"utils", "security"}, p \in Passwords,
     h \in {get_password_hash(q, s) : q \in Passwords, s \in Salts}
             \cup MalformedHashes}

Args(fn, arg) == [op |-> "none", fn |-> fn, arg |-> arg]

Applied(fn, out) == [op |-> fn, arg |-> last.arg, out |-> out]

VerifyPassword ==
  /\ last.op = "none" /\ last.fn = "verify_password"
  /\ last' = Applied("verify_password",
               IF last.arg.module = "utils"
                 THEN Returned(<<verify_password(last.arg.plain, last.arg.hashed)>>)
                 ELSE security_verify_password(last.arg.plain, last.arg.hashed))
  /\ UNCHANGED <<users, children, now, tz, hdr, iss, calls, client, database, today>>

CalculateAge ==
  /\ last.op = "none" /\ last.fn = "calculate_age"
  /\ last' = Applied("calculate_age", calculate_age(last.arg))
  /\ UNCHANGED <<users, children, now, tz, hdr, iss, calls, client, database, today>>

ValidateCoordinates ==
  /\ last.op = "none" /\ last.fn = "validate_coordinates"
  /\ last' = Applied("validate_coordinates", validate_coordinates(last.arg))
  /\ UNCHANGED <<users, children, now, tz, hdr, iss, calls, client, database, today>>

InitPure ==
  /\ users = {}
  /\ children = {}
  /\ now = 1
  /\ tz = 0
  /\ hdr = NoHeader
  /\ iss = NoIssue
  /\ calls = NoCalls
  /\ client = "connected"
  /\ database = "saferide_kids"
  /\ today \in TodayDates
  /\ last \in {Args("verify_password", x) : x \in HashInputs}
               \cup {Args("calculate_age", x) : x \in BirthDates}
               \cup {Args("validate_coordinates", x) : x \in CoordinateInputs}

NextPure == VerifyPassword \/ CalculateAge \/ ValidateCoordinates

SpecPure == InitPure /\ [][NextPure]_vars

(***************************************************************************)
(* The child service while the date of the host moves on.  Dates of birth  *)
(* are taken around the limits the validator sets on the day the run       *)
(* starts: a child just 18, a child one day short of 19, a child of 19, a  *)
(* child of 8 and a birth in the future.                                   *)
(***************************************************************************)
AgeBirthDates ==
  {Date(2006, 6, 15), Date(2005, 6, 16), Date(2005, 6, 15), BirthDate0,
   Date(2024 + MaxTodayYears, 1, 1)}

AgeBodies == {[name |-> "ann", date_of_birth |-> d] : d \in AgeBirthDates}

\* the host's date moves to a later day
AdvanceToday(t) ==
  /\ today.year < t.year \/ (today.year = t.year /\ MonthDayBefore(today, t))
  /\ today' = t
  /\ last' = NoCall
  /\ UNCHANGED <<users, children, now, tz, hdr, iss, calls, client, database>>

InitAge ==
  /\ users = {SeedUser("u1", "guardian", TRUE)}
  /\ children = {}
  /\ now = 1
  /\ tz = 0
  /\ hdr = NoHeader
  /\ iss = NoIssue
  /\ last = NoCall
  /\ calls = NoCalls
  /\ client = "connected"
  /\ database = "saferide_kids"
  /\ today = Today0

NextAge ==
  \/ \E t \in TodayDates : AdvanceToday(t)
  \/ \E cd \in AgeBodies : CreateChild("u1", cd)
  \/ ListChildren("u1")
  \/ \E cid \in ChildIds : GetChild(cid, "u1")
  \/ \E cid \in ChildIds, cd \in AgeBodies : UpdateChild(cid, "u1", cd)

SpecAge == InitAge /\ [][NextAge]_vars

(***************************************************************************)
(* Registrations handled concurrently.  create_user awaits find_one, then  *)
(* insert_one, then the find_one that reads the new document back; other   *)
(* requests may run between two awaits.  The users collection has the one  *)
(* unique index every collection has, on _id.                              *)
(***************************************************************************)
\* insert_one into a collection that had no unique index at all
insert_one_unindexed(coll, doc) == [error |-> "none", coll |-> coll \cup {doc}]

\* insert_one: a second document with the _id of a stored one is refused
insert_one(coll, doc) ==
  IF \E d \in coll : d._id = doc._id
    THEN [error |-> "DuplicateKeyError", coll |-> coll]
    ELSE [error |-> "none", coll |-> coll \cup {doc}]

\* register is called: the body is validated, create_user runs up to its
\* first await
RegisterBegin(r, email, salt) ==
  /\ calls[r].pc = "idle"
  /\ calls' = [calls EXCEPT ![r] =
                 [pc |-> "await find_one", salt |-> salt,
                  user_data |-> UserIn(email, "longenough1", "guardian")[1]]]
  /\ UNCHANGED <<users, children, now, tz, hdr, iss, last, client, database, today>>

\* existing_user = await db.users.find_one({"email": user_data.email})
RegisterFindOne(r) ==
  /\ calls[r].pc = "await find_one"
  /\ calls' = [calls EXCEPT ![r] =
       IF Find(users, PyDict(<< <<"email", calls[r].user_data.email>> >>)) # {}
         THEN [pc |-> "done", user_data |-> calls[r].user_data,
               out |-> EmailAlreadyRegistered]
         ELSE [calls[r] EXCEPT !.pc = "await insert_one"]]
  /\ UNCHANGED <<users, children, now, tz, hdr, iss, last, client, database, today>>

\* await db.users.insert_one(...), the read back of the document and the
\* answer of the endpoint
RegisterInsertOne(r) ==
  /\ calls[r].pc = "await insert_one"
  /\ LET user_data == calls[r].user_data
         doc == UserDB(user_data.email, user_data.role,
                       get_password_hash(user_data.password, calls[r].salt), now)
         res == insert_one(users, doc)
         out == IF res.error # "none" THEN EmailAlreadyRegistered
                ELSE IF UserOutValidates(doc)
                  THEN [Returned(<<UserOut(doc)>>) EXCEPT !.status = 201]
                ELSE Raised(500, <<"An error occurred during registration",
                                   "ValidationError">>)
     IN /\ users' = res.coll
        /\ calls' = [calls EXCEPT ![r] =
                       [pc |-> "done", user_data |-> user_data, out |-> out]]
        /\ last' = Sent("register", user_data.email, user_data.password, out)
  /\ UNCHANGED <<children, now, tz, hdr, iss, client, database, today>>

InitRegister ==
  /\ users \in {{}, {SeedUser("u1", "guardian", TRUE)},
                {UserDB(Email("u2", "x.com"), "driver",
                        get_password_hash("longenough1", "s1"), 0)}}
  /\ children = {}
  /\ now = 1
  /\ tz = 0
  /\ hdr = NoHeader
  /\ iss = NoIssue
  /\ last = NoCall
  /\ calls = NoCalls
  /\ client = "connected"
  /\ database = "saferide_kids"
  /\ today = Today0

NextRegister ==
  \/ \E r \in Requests, email \in {Email("g", "x.com"), Email("u1", "x.com")},
        salt \in Salts : RegisterBegin(r, email, salt)
  \/ \E r \in Requests : RegisterFindOne(r)
  \/ \E r \in Requests : RegisterInsertOne(r)

SpecRegister == InitRegister /\ [][NextRegister]_vars

(***************************************************************************)
(* create_child handled while the users collection changes.  The guardian  *)
(* lookup and the insert are two awaits; between them the store may apply  *)
(* another client's write, here one that sets a user's is_active to false  *)
(* (the application itself has no operation that does).                    *)
(***************************************************************************)
\* create_child is called and runs up to its guardian lookup
CreateBegin(r, gid) ==
  /\ calls[r].pc = "idle"
  /\ calls' = [calls EXCEPT ![r] = [pc |-> "await find_one", gid |-> gid]]
  /\ UNCHANGED <<users, children, now, tz, hdr, iss, last, client, database, today>>

\* guardian = await db.users.find_one(...); not found raises 404
CreateFindOne(r) ==
  /\ calls[r].pc = "await find_one"
  /\ IF FindGuardian(calls[r].gid) = {}
       THEN /\ calls' = [calls EXCEPT ![r].pc = "done"]
            /\ last' = Called("create", calls[r].gid, "-", <<Body0>>,
                              Result("OwnerNotFound", <<>>, children))
       ELSE /\ calls' = [calls EXCEPT ![r].pc = "await insert_one"]
            /\ UNCHANGED last
  /\ UNCHANGED <<users, children, now, tz, hdr, iss, client, database, today>>

\* await db.children.insert_one(child_doc), the read back and the answer
CreateInsertOne(r) ==
  /\ calls[r].pc = "await insert_one"
  /\ Cardinality(children) < MaxChildren
  /\ LET res == create_child_insert(calls[r].gid, Body0, now)
     IN /\ children' = res.coll
        /\ now' = IF res.out = "Ok" THEN now + 1 ELSE now
        /\ last' = Called("create", calls[r].gid, "-", <<Body0>>, res)
  /\ calls' = [calls EXCEPT ![r].pc = "done"]
  /\ UNCHANGED <<users, tz, hdr, iss, client, database, today>>

\* a write to the users collection from outside the application
DeactivateUser(id) ==
  /\ \E u \in users : u._id = Oid(id) /\ u.is_active
  /\ users' = {IF u._id = Oid(id) THEN [u EXCEPT !.is_active = FALSE] ELSE u :
                 u \in users}
  /\ last' = NoCall
  /\ UNCHANGED <<children, now, tz, hdr, iss, calls, client, database, today>>

InitCreate ==
  /\ users = {SeedUser("u1", "guardian", TRUE), SeedUser("u2", "guardian", TRUE),
              SeedUser("u3", "guardian", FALSE)}
  /\ children = {}
  /\ now = 1
  /\ tz = 0
  /\ hdr = NoHeader
  /\ iss = NoIssue
  /\ last = NoCall
  /\ calls = NoCalls
  /\ client = "connected"
  /\ database = "saferide_kids"
  /\ today = Today0

NextCreate ==
  \/ \E r \in Requests, gid \in {"u1", "u2", "u3"} : CreateBegin(r, gid)
  \/ \E r \in Requests : CreateFindOne(r)
  \/ \E r \in Requests : CreateInsertOne(r)
  \/ \E id \in {"u1", "u2"} : DeactivateUser(id)

SpecCreate == InitCreate /\ [][NextCreate]_vars

(***************************************************************************)
(* update_child handled concurrently with soft deletes.  The coroutine     *)
(* awaits three times: the find_one that checks existence, the update_one, *)
(* and the find_one that reads the record back.  delete_child has a single *)
(* await, its update_one (see SpecDelete), and is taken as one step here.  *)
(* All calls are made by the owner of the records.                         *)
(***************************************************************************)
\* update_one with {"$set": update_data} and the test of modified_count
update_child_write(child_id, guardian_id, child_data) ==
  LET found == Find(children, ChildQuery(child_id, guardian_id))
  IN IF found = {}
       THEN Result("NoChangesApplied", <<>>, children)
       ELSE LET old == CHOOSE d \in found : TRUE
                new == SetFields(old, update_data(child_data))
            IN IF new = old
                 THEN Result("NoChangesApplied", <<>>, children)
                 ELSE Result("Modified", <<>>, (children \ {old}) \cup {new})

\* find_one({"_id": ObjectId(child_id)}) and the conversion to ChildOut
update_child_read_back(child_id) ==
  LET updated_child == CHOOSE d \in children : d._id = Oid(child_id)
  IN Result("Ok", <<ChildOut(updated_child)>>, children)

\* the request is accepted and its coroutine runs up to the first find_one
UpdateBegin(r, cid, cd) ==
  /\ calls[r].pc = "idle"
  /\ calls' = [calls EXCEPT ![r] =
                 [pc |-> IF IsValidOid(cid) THEN "await find_one" ELSE "answer",
                  cid |-> cid, gid |-> "u1", data |-> cd,
                  res |-> Result("InvalidId", <<>>, {})]]
  /\ UNCHANGED <<users, children, now, tz, hdr, iss, last, client, database, today>>

\* existing_child = await db.children.find_one(...)
UpdateFindOne(r) ==
  /\ calls[r].pc = "await find_one"
  /\ calls' = [calls EXCEPT ![r] =
       IF Find(children, ChildQuery(calls[r].cid, calls[r].gid)) = {}
         THEN [@ EXCEPT !.pc = "answer",
                        !.res = Result("NotFoundOrForbidden", <<>>, {})]
         ELSE [@ EXCEPT !.pc = "await update_one"]]
  /\ UNCHANGED <<users, children, now, tz, hdr, iss, last, client, database, today>>

\* result = await db.children.update_one(...)
UpdateUpdateOne(r) ==
  /\ calls[r].pc = "await update_one"
  /\ LET res == update_child_write(calls[r].cid, calls[r].gid, calls[r].data)
     IN /\ children' = res.coll
        /\ calls' = [calls EXCEPT ![r] =
             IF res.out = "Modified"
               THEN [@ EXCEPT !.pc = "await read back"]
               ELSE [@ EXCEPT !.pc = "answer",
                              !.res = Result("NoChangesApplied", <<>>, {})]]
  /\ UNCHANGED <<users, now, tz, hdr, iss, last, client, database, today>>

\* updated_child = await db.children.find_one({"_id": ObjectId(child_id)})
UpdateReadBack(r) ==
  /\ calls[r].pc = "await read back"
  /\ calls' = [calls EXCEPT ![r] =
       [@ EXCEPT !.pc = "answer",
                 !.res = [update_child_read_back(calls[r].cid) EXCEPT !.coll = {}]]]
  /\ UNCHANGED <<users, children, now, tz, hdr, iss, last, client, database, today>>

\* the coroutine returns or raises
UpdateAnswer(r) ==
  /\ calls[r].pc = "answer"
  /\ calls' = [calls EXCEPT ![r] = Idle]
  /\ last' = Called("update", calls[r].gid, calls[r].cid, <<calls[r].data>>,
                    calls[r].res)
  /\ UNCHANGED <<users, children, now, tz, hdr, iss, client, database, today>>

InitUpdate ==
  /\ users = {SeedUser("u1", "guardian", TRUE)}
  /\ children = {RecordOf("c1", "u1", 1), RecordOf("c2", "u1", 2)}
  /\ now = 3
  /\ tz = 0
  /\ hdr = NoHeader
  /\ iss = NoIssue
  /\ last = NoCall
  /\ calls = NoCalls
  /\ client = "connected"
  /\ database = "saferide_kids"
  /\ today = Today0

NextUpdate ==
  \/ \E r \in Requests, cid \in {"c1", "c2", "zz"}, cd \in ApiBodies :
        UpdateBegin(r, cid, cd)
  \/ \E r \in Requests : UpdateFindOne(r)
  \/ \E r \in Requests : UpdateUpdateOne(r)
  \/ \E r \in Requests : UpdateReadBack(r)
  \/ \E r \in Requests : UpdateAnswer(r)
  \/ \E cid \in {"c1", "c2"} : DeleteChild(cid, "u1")

SpecUpdate == InitUpdate /\ [][NextUpdate]_vars

(***************************************************************************)
(* Logins against a users collection in which some users are inactive.     *)
(* UserDB has the field is_active; a stored user becomes inactive by a     *)
(* write from outside the application (DeactivateUser).                    *)
(***************************************************************************)
LoginUsers ==
  {SeedUser("u1", "guardian", TRUE), SeedUser("u2", "guardian", TRUE),
   SeedUser("u3", "guardian", FALSE)}

InitLogin ==
  /\ users = LoginUsers
  /\ children = {}
  /\ now = 1
  /\ tz = 0
  /\ hdr = NoHeader
  /\ iss = NoIssue
  /\ last = NoCall
  /\ calls = NoCalls
  /\ client = "connected"
  /\ database = "saferide_kids"
  /\ today = Today0

NextLogin ==
  \/ \E u \in LoginUsers, password \in Passwords : LoginForm(u.email, password)
  \/ \E u \in LoginUsers, password \in Passwords : LoginJson(u.email, password)
  \/ \E id \in {"u1", "u2"} : DeactivateUser(id)

SpecLogin == InitLogin /\ [][NextLogin]_vars

(***************************************************************************)
(* Claims about the child service, checked under SpecChild.                *)
(***************************************************************************)
IsInactive(d) == "is_active" \in DOMAIN d /\ d.is_active = FALSE

\* d was stored by create_child for owner a
CreatedUnder(d, a) == d.guardian_id = Str(a) /\ "is_active" \in DOMAIN d

\* C1: a get_child_by_id(id, B) on a record created under owner A # B
\* returns no record and ends in NotFoundOrForbidden.
C1_OwnershipIsolationOnRead ==
  last.op = "get" =>
    \A d \in children, a \in OwnerIds :
       (d._id.val = last.cid /\ CreatedUnder(d, a) /\ a # last.gid)
         => (last.out = "NotFoundOrForbidden" /\ last.ret = <<>>)

\* C2: an update_child(id, B, data) or delete_child(id, B) on a record
\* created under owner A # B ends in NotFoundOrForbidden and leaves the
\* stored record (every field, is_active included) as it was.
C2_OwnershipIsolationOnMutation ==
  [][\A d \in children, a \in OwnerIds :
        (last'.op \in {"update", "delete"} /\ last'.cid = d._id.val
           /\ CreatedUnder(d, a) /\ a # last'.gid)
          => (last'.out = "NotFoundOrForbidden" /\ d \in children')]_vars

\* C5: once a record's is_active is false it stays false (never true, never
\* absent), no list, get, update or create returns it, and every get, update
\* and delete aimed at it ends in NotFoundOrForbidden.
C5_SoftDeleteMonotonic ==
  [][\A d \in children :
        IsInactive(d) =>
          /\ \E e \in children' : e._id = d._id /\ IsInactive(e)
          /\ \A i \in 1..Len(last'.ret) : last'.ret[i].id # d._id.val
          /\ (last'.op \in {"get", "update", "delete"} /\ last'.cid = d._id.val)
               => last'.out = "NotFoundOrForbidden"]_vars

\* C5 witness: the owner asked for a record that had been soft-deleted
C5_Witness ==
  /\ last.op \in {"get", "update"}
  /\ last.out = "NotFoundOrForbidden"
  /\ \E d \in children :
       d._id.val = last.cid /\ IsInactive(d) /\ d.guardian_id.val = last.gid

(***************************************************************************)
(* Claims about tokens and guards, checked under SpecAuth.                 *)
(***************************************************************************)
GuardOps == {"require_role", "require_roles"}

TokenOps ==
  GuardOps \cup {"verify_token", "security_verify_token", "verify_jwt_token",
                 "get_current_user_optional"}

\* the header carries a token signed with the secret
GoodSignature(h) == h.kind = "bearer" /\ h.token.kind = "jwt" /\ h.token.sig = "good"

\* ... whose expiry instant lies after t
ValidCredentials(h, t) == GoodSignature(h) /\ h.token.payload.exp > t

\* the claims of a payload, without the expiry the codec added
ClaimsOf(payload) == [k \in DOMAIN payload \ {"exp"} |-> payload[k]]

\* C3: a role guard for the set R admits exactly the callers that present a
\* valid token and whose role is in R, answers 403 when the role is not in R,
\* and answers 401 to a missing, empty, malformed, wrongly signed or expired
\* token whatever R is.
C3_RoleGate ==
  last.op \in GuardOps =>
    /\ ~ValidCredentials(hdr, now) => last.out.raised /\ last.out.status = 401
    /\ \A u \in users :
         (ValidCredentials(hdr, now) /\ u.is_active
            /\ ClaimsOf(hdr.token.payload) = LoginClaims(u))
           => IF u.role \in last.roles
                THEN ~last.out.raised
                ELSE last.out.raised /\ last.out.status = 403

\* C4: given a validly signed, unexpired token, a guard answers 401 when the
\* subject is not in the user store, answers the distinct "Inactive user"
\* rejection when the stored user's active flag is false, and admits only
\* callers whose subject is an active stored user.
C4_SubjectResolvesToActiveUser ==
  (last.op \in GuardOps /\ ValidCredentials(hdr, now)
     /\ "sub" \in DOMAIN hdr.token.payload) =>
    LET known == {u \in users : u.email = hdr.token.payload.sub}
    IN /\ known = {} => last.out.raised /\ last.out.status = 401
       /\ (\E u \in known : ~u.is_active)
            => last.out.raised /\ last.out.status = 400
                 /\ last.out.detail = <<"Inactive user">>
       /\ ~last.out.raised => \E u \in known : u.is_active

\* C6: verifying a token issued at t0 with a positive ttl returns the issued
\* claims at every time before t0 + ttl and the invalid outcome at every time
\* from t0 + ttl on, whatever the host's time zone.
C6_TokenLifetime ==
  (last.op = "verify_token" /\ iss.kind = "issued") =>
    IF now < iss.t0 + iss.ttl
      THEN /\ last.out.value # <<>>
           /\ ClaimsOf(last.out.value[1]) = iss.data
      ELSE last.out.value = <<>>

\* C7: no path that accepts tokens yields an identity from a correctly
\* signed, unexpired token whose claims lack the subject.
C7_SubjectRequired ==
  (last.op \in TokenOps /\ ValidCredentials(hdr, now)
     /\ "sub" \notin DOMAIN hdr.token.payload) => last.out.value = <<>>

\* why a token fails, by what is wrong with the token itself
FailureMode(token, t) ==
  CASE token.kind # "jwt" -> "malformed"
    [] token.kind = "jwt" /\ token.sig # "good" -> "signature"
    [] token.kind = "jwt" /\ token.sig = "good" /\ token.payload.exp < t -> "expired"
    [] OTHER -> "none"

IssuablePayloads ==
  {create_access_token(data, ttl, t0).payload :
     data \in ClaimSets, ttl \in 0..MaxTtl, t0 \in 1..MaxTime}

FailingTokens(t) ==
  {token \in {EmptyToken, GarbageToken}
             \cup {Jwt(payload, sig) : payload \in IssuablePayloads,
                                       sig \in {"good", "bad"}} :
     FailureMode(token, t) # "none"}

\* C8: token verification has one opaque failure outcome.  Whenever
\* verify_token is given a token that is malformed, wrongly signed or expired
\* it returns None without raising, and so it does for every other failing
\* token; verify_jwt_token and the verify_token of security.py likewise
\* answer every failing token with one and the same outcome.
C8_OpaqueFailure ==
  /\ (last.op = "verify_token" /\ FailureMode(hdr.token, now) # "none") =>
       /\ last.out = Returned(<<>>)
       /\ \A token \in FailingTokens(now) :
            verify_token(token, now, tz) = last.out.value
  /\ (last.op = "security_verify_token" /\ FailureMode(hdr.token, now) # "none") =>
       \A token \in FailingTokens(now) :
         security_verify_token(token, now) = last.out
  /\ (last.op = "verify_jwt_token" /\ hdr.kind = "bearer"
        /\ hdr.token.kind # "empty" /\ FailureMode(hdr.token, now) # "none") =>
       \A token \in FailingTokens(now) \ {EmptyToken} :
         verify_jwt_token(Bearer(token), now, tz) = last.out

C8_Witness ==
  /\ last.op = "verify_token"
  /\ FailureMode(hdr.token, now) = "expired"
  /\ last.out = Returned(<<>>)

(***************************************************************************)
(* Claims about registration and login, checked under SpecUser.            *)
(***************************************************************************)
LoginOps == {"login_with_form", "login_with_json"}

\* the address a login looks up
LookedUp(op, email) == IF op = "login_with_json" THEN EmailStr(email) ELSE email

NotOnFile(email) == \A u \in users : u.email # email

WrongPassword(email, password) ==
  \E u \in users : u.email = email /\ u.hashed_password[3] # password

BadCredentials(op, email, password) ==
  \/ NotOnFile(LookedUp(op, email))
  \/ WrongPassword(LookedUp(op, email), password)

\* C9: a login with an address that is not on file and a login with a stored
\* address and a wrong password get the identical rejection (401, "Incorrect
\* email or password"), and a login leaves the user store as it was.
C9_UniformLoginFailure ==
  [][last'.op \in LoginOps =>
       /\ users' = users
       /\ BadCredentials(last'.op, last'.email, last'.password) =>
            /\ last'.out = IncorrectEmailOrPassword
            /\ \A email \in RawEmails, password \in Passwords :
                 /\ BadCredentials("login_with_form", email, password)
                      => login_with_form(email, password, now) = last'.out
                 /\ BadCredentials("login_with_json", email, password)
                      => login_with_json(email, password, now) = last'.out]_vars

C9_Witness ==
  /\ last.op \in LoginOps
  /\ WrongPassword(LookedUp(last.op, last.email), last.password)
  /\ last.out = IncorrectEmailOrPassword
  /\ \E email \in RawEmails : NotOnFile(email)

\* an address with the case of its letters ignored
CaseFold(email) == Email(Lower(email.local), Lower(email.domain))

\* C10: after a register call no two stored users have addresses that are
\* equal when case is ignored, and a register call (of well-formed input)
\* whose address equals a stored one when case is ignored is rejected with
\* "Email already registered" and adds no user.
C10_EmailUniqueness ==
  [][(last'.op = "register" /\ PasswordLen(last'.password) >= 8) =>
       /\ \A u, v \in users' :
            CaseFold(u.email) = CaseFold(v.email) => u = v
       /\ (\E u \in users : CaseFold(u.email) = CaseFold(last'.email))
            => last'.out = EmailAlreadyRegistered /\ users' = users]_vars

\* C11: the lookup by address ignores letter case.  Once a user is stored
\* with address e and password p, a login with p and any address equal to e
\* ignoring case returns a token, through either login entry point, and the
\* lookup by that token's subject finds the same user.
C11_CaseNormalizedLookup ==
  last.op \in LoginOps =>
    \A u \in users :
      (CaseFold(u.email) = CaseFold(last.email)
         /\ u.hashed_password[3] = last.password)
        => /\ ~last.out.raised
           /\ last.out.value[1].access_token.payload.sub = u.email
           /\ get_user_by_email(u.email) = Returned(<<UserOut(u)>>)

\* the fields that carry a credential
CredentialFields == {"hashed_password", "password"}

\* a returned record, or the claims of a token in it, has a credential field
Exposes(out) ==
  \E i \in 1..Len(out.value) :
    \/ DOMAIN out.value[i] \cap CredentialFields # {}
    \/ /\ "access_token" \in DOMAIN out.value[i]
       /\ DOMAIN out.value[i].access_token.payload \cap CredentialFields # {}

\* C12: the stored password hash is never exposed.  Nothing that register,
\* login or a guard returns (user output record, token, token claims) has a
\* field carrying the hash or the password, and what is stored for a user is
\* a bcrypt hash, never the plaintext password.
C12_HashNeverExposed ==
  /\ \A u \in users : WellFormedHash(u.hashed_password)
  /\ last.op \in LoginOps \cup GuardOps \cup {"register"} => ~Exposes(last.out)

C12_Witness ==
  /\ last.op = "require_role"
  /\ ~last.out.raised
  /\ \E u \in users : u.email = last.out.value[1].sub
                        /\ WellFormedHash(u.hashed_password)

(***************************************************************************)
(* Further claims about the child service, checked under SpecChild.        *)
(***************************************************************************)
\* the id resolves to a stored user that is a guardian with a true active flag
ActiveGuardian(id) ==
  \E u \in users : /\ u._id.val = id
                   /\ u.role = "guardian"
                   /\ "is_active" \in DOMAIN u /\ u.is_active

\* C13: create inserts a record only for an owner id that resolves to an
\* active guardian; any other owner id ends in OwnerNotFound with the
\* collection unchanged.  The inserted record is active and refers to the
\* owner id it was created under.
C13_CreateRequiresActiveGuardian ==
  [][last'.op = "create" =>
       IF ActiveGuardian(last'.gid)
         THEN /\ last'.out = "Ok"
              /\ \E d \in children' \ children :
                   /\ children' = children \cup {d}
                   /\ d.is_active = TRUE
                   /\ d.guardian_id.val = last'.gid
         ELSE /\ last'.out = "OwnerNotFound"
              /\ children' = children]_vars

C13_Witness ==
  /\ last.op = "create"
  /\ last.out = "OwnerNotFound"
  /\ \E u \in users : u._id.val = last.gid /\ u.role = "guardian" /\ ~u.is_active

\* the stored records of an owner, in either encoding of the reference, that
\* are active or carry no active flag
ListedFor(id) ==
  {d \in children : /\ d.guardian_id \in {Oid(id), Str(id)}
                    /\ ~IsInactive(d)}

\* C14: the list of an owner holds exactly the stored records that refer to
\* that owner (as string or as object id) and are active or without an active
\* flag, each once, newest-created first; no other owner's record and no
\* soft-deleted record appears.
C14_ListByOwner ==
  last.op = "list" =>
    /\ last.out = "Ok"
    /\ Len(last.ret) = Cardinality(ListedFor(last.gid))
    /\ \A d \in ListedFor(last.gid) :
         \E i \in 1..Len(last.ret) : last.ret[i] = ChildOut(d)
    /\ \A i, j \in 1..Len(last.ret) :
         i < j => last.ret[i].created_at >= last.ret[j].created_at

C14_Witness ==
  /\ last.op = "list"
  /\ Len(last.ret) = 1
  /\ \E d \in children : d.guardian_id.val = last.gid /\ IsInactive(d)

\* the stored records with this id that refer to this owner and are not
\* soft-deleted
OwnedActive(cid, gid) ==
  {d \in children : /\ d._id.val = cid
                    /\ d.guardian_id.val = gid
                    /\ ~IsInactive(d)}

\* C15: for a well-formed id, getOne, update and softDelete give the caller
\* the single NotFoundOrForbidden outcome whenever the store holds no active
\* record with that id owned by the caller, be it because the id does not
\* exist, because the record is another owner's, or because it is the
\* caller's own soft-deleted record.  (Stated for the records create wrote,
\* which carry an active flag.)
C15_ExistenceDoesNotLeak ==
  [][(last'.op \in {"get", "update", "delete"} /\ IsValidOid(last'.cid)
        /\ (\A d \in children : d._id.val = last'.cid => "is_active" \in DOMAIN d)
        /\ OwnedActive(last'.cid, last'.gid) = {})
       => last'.out = "NotFoundOrForbidden" /\ last'.ret = <<>>]_vars

C17_FrameOfUpdateAndDelete ==
  [][last'.op \in {"update", "delete"} =>
       IF last'.out \in {"Ok", "NotModified"}
         THEN \E old \in children, new \in children' :
                /\ old._id.val = last'.cid
                /\ children' \ {new} = children \ {old}
                /\ LET given == IF last'.op = "update" THEN DOMAIN last'.data[1]
                                                       ELSE {"is_active"}
                   IN /\ DOMAIN new = DOMAIN old \cup given
                      /\ \A k \in DOMAIN old \ given : new[k] = old[k]
                      /\ last'.op = "update"
                           => \A k \in given : new[k] = update_data(last'.data[1])[k]
                      /\ last'.op = "delete" => new.is_active = FALSE
         ELSE children' = children]_vars

C17_Witness ==
  /\ last.op = "update"
  /\ last.out = "Ok"
  /\ Cardinality(children) = 2
  /\ \E d \in OwnedActive(last.cid, last.gid) :
       d.notes = last.data[1].notes /\ d.updated_at = d.created_at

(***************************************************************************)
(* Claim about concurrent soft deletes, checked under SpecDelete.          *)
(***************************************************************************)
\* the requests that have their result and ask the owner's delete of cid
Answered(cid) ==
  {r \in Requests : /\ calls[r].pc \in {"result", "done"}
                    /\ calls[r].cid = cid
                    /\ \E d \in children : d._id.val = cid
                                             /\ d.guardian_id.val = calls[r].gid}

\* C18: however soft deletes of one active record by its owner interleave,
\* at most one of them reports success, every other one reports
\* NotFoundOrForbidden, and once any of them has its result the record is
\* inactive.
C18_ConcurrentSoftDelete ==
  \A cid \in ChildIds :
    /\ Cardinality({r \in Answered(cid) : calls[r].out = "Ok"}) <= 1
    /\ \A r \in Answered(cid) : calls[r].out \in {"Ok", "NotFoundOrForbidden"}
    /\ Answered(cid) # {} => \A d \in children : d._id.val = cid => IsInactive(d)

C18_Witness ==
  \E r1, r2 \in Requests :
    /\ r1 # r2
    /\ {r1, r2} \subseteq Answered("c1")
    /\ calls[r1].pc = "done" /\ calls[r1].out = "Ok"
    /\ calls[r2].pc = "done" /\ calls[r2].out = "NotFoundOrForbidden"

(***************************************************************************)
(* Claim about the two guard modules, checked under SpecAuth.              *)
(***************************************************************************)
\* two guard outcomes are the same answer: both admit, or both reject with
\* the same status
SameAnswer(a, b) == a.raised = b.raised /\ a.status = b.status

\* C19: there is one role-gating behaviour.  For every token, user store and
\* role set R the guard built by dependencies.require_roles(R) and the guard
\* built by middleware.require_role(R) give the same answer, and so do the
\* guards the two modules offer under the same name (require_admin,
\* require_driver, require_guardian) and their any-authenticated guards.
C19_OneRoleGate ==
  (last.op \in GuardOps /\ HasToken) =>
    /\ SameAnswer(require_role(last.roles, hdr, now, tz),
                  require_roles(last.roles, hdr, now))
    /\ \A name \in ConvenienceGuards :
         /\ MiddlewareGuard(name) = DependenciesGuard(name)
         /\ SameAnswer(require_role(MiddlewareGuard(name), hdr, now, tz),
                       require_roles(DependenciesGuard(name), hdr, now))
    /\ SameAnswer(require_any_authenticated_user(hdr, now, tz),
                  require_any_role(hdr, now))

(***************************************************************************)
(* Claim about the children endpoints, checked under SpecApi.              *)
(***************************************************************************)
ChildOps == {"create", "list", "get", "update", "delete"}

\* C20: whenever a children endpoint hands an owner id to the service, the
\* request carried a token that a login issued, and the owner id is the id
\* of the user that login was for, whatever owner id the client put into the
\* request.
C20_OwnerFromVerifiedToken ==
  (last.op \in ChildOps /\ "handed" \in DOMAIN last /\ last.handed) =>
    /\ iss.kind = "login"
    /\ last.gid = iss.user_id

C20_Witness ==
  /\ last.op = "create"
  /\ "handed" \in DOMAIN last /\ last.handed
  /\ last.out = "Ok"
  /\ last.request.guardian_id # last.gid

(***************************************************************************)
(* Claims about the connection to the store, checked under SpecDb.         *)
(***************************************************************************)
\* C21: a core operation called while no client has been created yet ends in
\* the explicit "Database not initialized" error and nothing else: it returns
\* no value and leaves both collections and the client's header as they were.
C21_FailFastBeforeInit ==
  [][(client = "None" /\ last'.op \in CoreOps) =>
       /\ DOMAIN last' = {"op", "error"}
       /\ last'.error = "RuntimeError: Database not initialized"
       /\ users' = users /\ children' = children /\ hdr' = hdr]_vars

C21_Witness ==
  /\ client = "None"
  /\ last.op \in CoreOps
  /\ "error" \in DOMAIN last
  /\ last.error = "RuntimeError: Database not initialized"

\* C29: get_database returns a handle exactly while the client is one whose
\* connect completed successfully and that has not been closed; before the
\* connect, after a connect whose ping failed and after the close it raises.
C29_HandleOnlyWhileConnected ==
  (~get_database.raised) <=> (client = "connected")

(***************************************************************************)
(* Claims about pure functions, checked under SpecPure.                    *)
(***************************************************************************)
\* the hashes either module may produce for the password p
HashOf(p) == {get_password_hash(p, s) : s \in Salts}
                \cup {security_get_password_hash(p, s) : s \in Salts}

\* C22: in both credential modules, verify(p, hash(p)) is true, hash(p) is
\* not the text made of p alone, verify(p2, hash(p1)) is false for p1 # p2, and verify
\* answers false, raising nothing, for a hash that is empty or malformed.
C22_CredentialStore ==
  /\ \A p \in Passwords : \A h \in HashOf(p) : h # <<p>>
  /\ last.op = "verify_password" =>
       /\ ~last.out.raised
       /\ \A p \in Passwords :
            last.arg.hashed \in HashOf(p) =>
              last.out.value[1] = (last.arg.plain = p)
       /\ last.arg.hashed \in MalformedHashes => last.out.value[1] = FALSE

\* dates in their order, and the date n years after or before a date (the
\* 29th of February falls on the 1st of March in a year that has none)
DateLE(a, b) ==
  \/ a.year < b.year
  \/ a.year = b.year /\ (MonthDayBefore(a, b) \/ (a.month = b.month /\ a.day = b.day))

AddYears(d, n) ==
  IF d.day <= DaysIn(d.year + n, d.month)
    THEN Date(d.year + n, d.month, d.day)
    ELSE Date(d.year + n, 3, 1)

NextDay(d) ==
  IF d.day < DaysIn(d.year, d.month) THEN Date(d.year, d.month, d.day + 1)
  ELSE IF d.month < 12 THEN Date(d.year, d.month + 1, 1)
  ELSE Date(d.year + 1, 1, 1)

\* the whole calendar years from d to t: the anniversaries of d that t has
\* reached
WholeYears(d, t) ==
  Cardinality({n \in 1..(t.year - d.year) : DateLE(AddYears(d, n), t)})

\* C23: for a date of birth d not after today, the derived age is the number
\* of whole calendar years from d to today; a birth exactly 8 years before
\* today gives 8, one a day later gives 7.
C23_AgeDerivation ==
  /\ (last.op = "calculate_age" /\ DateLE(last.arg, today)) =>
        last.out = WholeYears(last.arg, today)
  /\ calculate_age(Date(today.year - 8, today.month, today.day)) = 8
  /\ calculate_age(NextDay(Date(today.year - 8, today.month, today.day))) = 7

C23_Witness ==
  /\ last.op = "calculate_age"
  /\ last.arg = NextDay(Date(today.year - 8, today.month, today.day))
  /\ today = Date(2025, 2, 28)
  /\ last.out = 7

\* C25: a geo-point [longitude, latitude] is accepted exactly when
\* -180 <= longitude <= 180 and -90 <= latitude <= 90; 181 and 91 are
\* rejected, (-180, -90) and (180, 90) are accepted.
C25_InclusiveCoordinateBounds ==
  /\ (last.op = "validate_coordinates" /\ Len(last.arg) = 2) =>
        (~last.out.raised) =
           (/\ -180 <= last.arg[1] /\ last.arg[1] <= 180
            /\ -90 <= last.arg[2] /\ last.arg[2] <= 90)
  /\ validate_coordinates(<<181, 0>>).raised
  /\ validate_coordinates(<<0, 91>>).raised
  /\ ~validate_coordinates(<<-180, -90>>).raised
  /\ ~validate_coordinates(<<180, 90>>).raised

C25_Witness ==
  /\ last.op = "validate_coordinates"
  /\ last.arg = <<180, 90>>
  /\ ~last.out.raised

(***************************************************************************)
(* Claim about the ages the child service returns, checked under SpecAge.  *)
(***************************************************************************)
\* C24: every record returned by create, list, get or update carries the age
\* its date of birth gives on the day of the call, and that age lies in
\* 0..18; a create or update whose date of birth gives an age below 0 or
\* above 18 on that day is rejected with ValidationError and stores nothing.
C24_AgeWithinBounds ==
  [][/\ (last'.op \in {"create", "list", "get", "update"} /\ last'.out = "Ok") =>
          \A i \in 1..Len(last'.ret) :
             /\ last'.ret[i].age = calculate_age(last'.ret[i].date_of_birth)
             /\ last'.ret[i].age \in 0..18
     /\ (/\ last'.op \in {"create", "update"}
         /\ calculate_age(last'.data[1].date_of_birth) \notin 0..18) =>
          /\ last'.out = "ValidationError"
          /\ children' = children]_vars

(***************************************************************************)
(* Claim about concurrent registrations, checked under SpecRegister.       *)
(***************************************************************************)
\* the register calls for the address e that have been answered
Registered(e) ==
  {r \in Requests : calls[r].pc = "done" /\ calls[r].user_data.email = e}

\* C26: of the register calls made for one address, in whatever order their
\* steps interleave, at most one succeeds; when two have been answered, one
\* of them ended in "Email already registered"; and the store never holds
\* two users with that address.
C26_ConcurrentRegistration ==
  \A e \in {calls[r].user_data.email : r \in {q \in Requests : calls[q].pc # "idle"}} :
    /\ Cardinality({r \in Registered(e) : ~calls[r].out.raised}) <= 1
    /\ Cardinality(Registered(e)) >= 2 =>
         \E r \in Registered(e) : calls[r].out = EmailAlreadyRegistered
    /\ Cardinality({u \in users : u.email = e}) <= 1

\* two calls for one address were both past the existence check before
\* either inserted, and both have been answered
C26_Witness ==
  /\ \A r \in Requests : calls[r].pc = "done"
  /\ \E e \in {calls[r].user_data.email : r \in Requests} :
       /\ \A r \in Requests : calls[r].user_data.email = e
       /\ \E u \in users : u.email = e /\ u._id = NullId
       /\ \E r \in Requests : calls[r].out = EmailAlreadyRegistered
       /\ \E r \in Requests : calls[r].out # EmailAlreadyRegistered

(***************************************************************************)
(* Claim about create and a concurrent deactivation, checked under         *)
(* SpecCreate.                                                             *)
(***************************************************************************)
\* C27: a create whose owner check has passed inserts its record and reports
\* success whatever has happened to the owner since: the insert is a step of
\* its own that looks at the owner no more, so an active record can be
\* inserted for an owner that is inactive at the time of the insert.
C27_CheckThenInsert ==
  [][\A r \in Requests :
       (calls[r].pc = "await insert_one" /\ calls'[r].pc = "done") =>
          /\ last'.op = "create" /\ last'.out = "Ok"
          /\ \E d \in children' \ children :
               /\ d.guardian_id = Str(calls[r].gid)
               /\ d.is_active]_vars

\* the record just inserted belongs to an owner who is inactive
C27_Witness ==
  /\ last.op = "create" /\ last.out = "Ok"
  /\ \E d \in children :
       /\ d._id.val = last.ret[1].id
       /\ d.is_active
       /\ FindGuardian(d.guardian_id.val) = {}

(***************************************************************************)
(* Claim about update and a concurrent soft delete, checked under          *)
(* SpecUpdate.                                                             *)
(***************************************************************************)
\* C28: an update whose write ends in NoChangesApplied found an active record
\* of the caller at the moment of the write (a record soft-deleted since the
\* existence check makes the update end in NotFoundOrForbidden instead), and
\* the record a successful update reads back is active.
C28_UpdateAgainstDelete ==
  [][\A r \in Requests :
       /\ (calls[r].pc = "await update_one" /\ calls'[r].pc = "answer") =>
            IF \E d \in children : /\ d._id = Oid(calls[r].cid)
                                   /\ d.guardian_id = Str(calls[r].gid)
                                   /\ d.is_active
              THEN calls'[r].res.out = "NoChangesApplied" /\ children' = children
              ELSE calls'[r].res.out = "NotFoundOrForbidden"
       /\ (calls[r].pc = "await read back" /\ calls'[r].pc = "answer") =>
            \E d \in children : /\ d._id = Oid(calls[r].cid)
                                /\ d.is_active]_vars

(***************************************************************************)
(* Claim about logins of inactive users, checked under SpecLogin.          *)
(***************************************************************************)
\* C30: a login with the address and the correct password of a stored user
\* whose is_active is false returns no token.
C30_NoTokenForInactiveUser ==
  (/\ last.op \in LoginOps
   /\ \E u \in users : /\ u.email = last.email
                       /\ ~u.is_active
                       /\ verify_password(last.password, u.hashed_password))
    => last.out.raised

====
